---------------------------- MODULE Spec2Model ----------------------------
(***************************************************************************)
(* Model of the decision-and-protection core of the Jarvis backend:        *)
(*   - resilience/circuit_breaker.py   CircuitBreaker                      *)
(*   - resilience/rate_limiter.py      SlidingWindowRateLimiter            *)
(*   - agent.py                        JarvisAgent (interaction lock,      *)
(*                                     text queue, drain task)             *)
(*   - resilience/cost_tracker.py      CostTracker                         *)
(*   - llm/router.py                   IntentRouter                        *)
(*   - llm/claude_client.py            ClaudeLLMClient._stream_messages    *)
(*   - agent.py                        JarvisAgent._process_text (the      *)
(*                                     pipeline of one turn)               *)
(*   - pi/client.py                    PiClient.execute                    *)
(*   - resilience/pi_health.py         PiHealthMonitor                     *)
(* Each component has its own specification (SpecBreaker, SpecLimiter,     *)
(* SpecLimiterChecks, SpecAgent, SpecAgentCancel, SpecAgentSink,           *)
(* SpecAgentLive, SpecCost, SpecRouter, SpecClaude, SpecTurn,              *)
(* SpecPiClient, SpecPiHealth) over the shared variable tuple; a           *)
(* component's actions leave the other components' variables unchanged.    *)
(*                                                                         *)
(* Time: time.monotonic() is modelled by the integer clock `now`, counted  *)
(* in ticks of 0.02 s (TicksPerTenth ticks make 0.1 s), so that the        *)
(* limiter's round(x, 1) is a real rounding and never a tie.               *)
(*                                                                         *)
(* Money: USD amounts are integers counted in units of 0.00002 USD         *)
(* (UnitsPerRound units make 0.0001 USD), so that the cost tracker's       *)
(* round(x, 4) is a real rounding and never a tie.                         *)
(***************************************************************************)
EXTENDS Integers, Sequences, FiniteSets, TLC

\* ------------------------------------------------------------------ bounds
MaxTime == 6
MaxThreshold == 3
MaxCooldown == 2
NumCallers == 2
MaxLimit == 2
MaxWindow == 5
MaxTexts == 6
NumTasks == 2
MaxRecords == 2
MaxCost == 7
MaxDailyLimit == 2
MaxMonthlyLimit == 3
MaxMonth == 2
DaysPerMonth == 2
MaxRoutes == 2
MaxTokens == 2
MaxRequests == 2
MaxRetries == 2
MaxActions == 3

\* --------------------------------------------------------------- variables
VARIABLES
    now,                        \* time.monotonic(), in ticks
    \* CircuitBreaker
    cb_threshold,               \* self._failure_threshold
    cb_cooldown,                \* self._cooldown_sec (ticks)
    cb_state,                   \* self.state
    cb_failures,                \* self._failures
    cb_successes_in_half_open,  \* self._successes_in_half_open
    cb_last_failure_time,       \* self._last_failure_time
    cb_last_state_change,       \* self._last_state_change
    cb_pc,                      \* per caller: where its call() stands
    cb_admit,                   \* per caller: breaker state that admitted the running call
    cb_result,                  \* per caller: how its last call() ended
    cb_streak,                  \* failures recorded since (CLOSED, 0) with no other outcome; -1: not tracking
    \* SlidingWindowRateLimiter
    rl_limits,                  \* self._limits
    rl_window_secs,             \* self._window_secs (ticks)
    rl_windows,                 \* self._windows: source -> deque of timestamps
    rl_result,                  \* what the last check() returned or raised
    rl_burst,                   \* per source: start and length of the run of checks since its window was empty
    rl_rejected,                \* per source: 1 rejected since its last accepted check, 2 accepted again after a rejection
    rl_accepted,                \* per source: the times of the accepted checks of the last window duration, since the last reset
    \* JarvisAgent
    ag_state,                   \* self.state
    ag_locked,                  \* self._interaction_lock: locked
    ag_waiters,                 \* self._interaction_lock: tasks waiting in acquire(), oldest first
    ag_woken,                   \* release() has woken the first waiter, which has not run yet
    ag_queue,                   \* self._text_queue
    ag_pc,                      \* per task: where it stands
    ag_kind,                    \* per handler task: "text", "voice" or "none"
    ag_text,                    \* per task: the text it holds (0: none)
    ag_next,                    \* number of the next text submitted
    ag_evicted,                 \* texts dropped from the full queue
    ag_cancelled,               \* a CancelledError is passing through the turn now ending
    ag_ignored,                 \* a voice trigger was ignored during the turn now running
    ag_raising,                 \* an exception raised in the except or finally block is leaving the turn
    \* CostTracker
    ct_daily_limit,             \* _DAILY_LIMIT (money units)
    ct_monthly_limit,           \* _MONTHLY_LIMIT (money units)
    ct_ledger,                  \* rows of claude_usage, in insertion order
    ct_today,                   \* date.today(): <<month, day>>
    ct_verdict,                 \* what the last can_afford() returned or raised
    ct_refused,                 \* can_afford() has returned false on the current calendar day
    \* IntentRouter
    rt_enabled,                 \* _ENABLED
    rt_api_key,                 \* bool(config.ANTHROPIC_API_KEY)
    rt_has_tracker,             \* self._cost_tracker is not None
    rt_route_count,             \* self._route_count
    rt_tier_counts,             \* self._tier_counts
    rt_decision,                \* what the last classify() returned or raised
    rt_cascade,                 \* what _rule_classify returned inside the last classify()
    rt_first,                   \* the first rule of the cascade the last text satisfied (0: none evaluated)
    rt_later,                   \* the last text also satisfied a rule after that one, the default aside
    \* ClaudeLLMClient
    cl_pc,                      \* where _stream_messages stands
    cl_yielded,                 \* what _stream_messages has yielded to its consumer
    cl_request_count,           \* self._request_count
    cl_error_count,             \* self._error_count
    cl_db_failed,               \* the usage record of this request could not be written
    \* JarvisAgent._process_text
    pt_pc,                      \* where _process_text stands
    pt_source,                  \* the source of the turn: "voice" or "text"
    pt_target,                  \* decision.target of the turn ("none" before routing)
    pt_verdict,                 \* what the rate limiter answered in this turn
    pt_calls,                   \* the components the turn has invoked, with what it passed
    pt_events,                  \* the notifications the turn has emitted
    \* PiClient
    pi_max_retries,             \* self.max_retries
    pi_pc,                      \* where execute() stands
    pi_attempt,                 \* the loop variable `attempt`
    pi_history,                 \* what each transport attempt for the task returned or raised
    pi_last_error,              \* the local last_error
    pi_waits,                   \* the backoff sleeps taken, in seconds
    pi_ledger,                  \* the row of the task in pi_tasks ("none": no row)
    pi_result,                  \* what execute() returned
    \* PiHealthMonitor
    ph_reachable,               \* the Pi answers a ping
    ph_is_online,               \* self._is_online
    ph_offline_queue,           \* self._offline_queue
    ph_pc,                      \* where the health loop stands
    ph_was_online,              \* the local was_online of _check_health
    ph_batch,                   \* the local copy `queue` of _drain_queue: what is left to execute
    ph_executed,                \* the actions handed to pi_client.execute, in order
    ph_next,                    \* number of the next action offered to queue_action
    ph_before                   \* the actions that were queued when the last offline -> online transition was observed

cbVars == <<cb_threshold, cb_cooldown, cb_state, cb_failures,
            cb_successes_in_half_open, cb_last_failure_time,
            cb_last_state_change, cb_pc, cb_admit, cb_result, cb_streak>>

rlVars == <<rl_limits, rl_window_secs, rl_windows, rl_result, rl_burst,
            rl_rejected, rl_accepted>>

agVars == <<ag_state, ag_locked, ag_waiters, ag_woken, ag_queue, ag_pc,
            ag_kind, ag_text, ag_next, ag_evicted, ag_cancelled, ag_ignored,
            ag_raising>>

ctVars == <<ct_daily_limit, ct_monthly_limit, ct_ledger, ct_today, ct_verdict,
            ct_refused>>

rtVars == <<rt_enabled, rt_api_key, rt_has_tracker, rt_route_count,
            rt_tier_counts, rt_decision, rt_cascade, rt_first, rt_later>>

clVars == <<cl_pc, cl_yielded, cl_request_count, cl_error_count, cl_db_failed>>

ptVars == <<pt_pc, pt_source, pt_target, pt_verdict, pt_calls, pt_events>>

piVars == <<pi_max_retries, pi_pc, pi_attempt, pi_history, pi_last_error,
            pi_waits, pi_ledger, pi_result>>

phVars == <<ph_reachable, ph_is_online, ph_offline_queue, ph_pc, ph_was_online,
            ph_batch, ph_executed, ph_next, ph_before>>

vars == <<now, cbVars, rlVars, agVars, ctVars, rtVars, clVars, ptVars, piVars,
          phVars>>

Max(a, b) == IF a >= b THEN a ELSE b

\* ------------------------------------------------------------------- clock
\* Time passes between the steps of the coroutines.
Tick ==
    /\ now < MaxTime
    /\ now' = now + 1

\* ========================================================= CircuitBreaker
Callers == 1..NumCallers
CircuitState == {"CLOSED", "OPEN", "HALF_OPEN"}

\* elapsed >= self._cooldown_sec  (_check_allowed)
CooldownElapsed_strict(t, last_failure, cooldown) == t - last_failure > cooldown
CooldownElapsed_early(t, last_failure, cooldown) == t - last_failure >= cooldown - 1
CooldownElapsed(t, last_failure, cooldown) == t - last_failure >= cooldown

\* _check_allowed: whether the call passes, and the state it leaves.
check_allowed(st, t, last_failure, cooldown) ==
    IF st = "CLOSED" THEN [allowed |-> TRUE, state |-> st]
    ELSE IF st = "OPEN" THEN
        IF CooldownElapsed(t, last_failure, cooldown)
        THEN [allowed |-> TRUE, state |-> "HALF_OPEN"]
        ELSE [allowed |-> FALSE, state |-> st]
    ELSE [allowed |-> TRUE, state |-> st]

\* _record_success: the state and failure count it leaves.
record_success_any(st, f) ==
    IF st /= "CLOSED" THEN [state |-> "CLOSED", failures |-> 0]
    ELSE [state |-> st, failures |-> Max(0, f - 1)]
record_success_clears(st, f) ==
    IF st = "OPEN" THEN [state |-> st, failures |-> f]
    ELSE [state |-> "CLOSED", failures |-> 0]
record_success(st, f) ==
    IF st = "HALF_OPEN" THEN [state |-> "CLOSED", failures |-> 0]
    ELSE IF st = "CLOSED" THEN [state |-> st, failures |-> Max(0, f - 1)]
    ELSE [state |-> st, failures |-> f]

\* _record_failure: the state and failure count it leaves.
record_failure_gt(st, f, threshold) ==
    IF st = "HALF_OPEN" THEN [state |-> "OPEN", failures |-> f + 1]
    ELSE IF st = "CLOSED" /\ f + 1 > threshold
         THEN [state |-> "OPEN", failures |-> f + 1]
    ELSE [state |-> st, failures |-> f + 1]
record_failure(st, f, threshold) ==
    IF st = "HALF_OPEN" THEN [state |-> "OPEN", failures |-> f + 1]
    ELSE IF st = "CLOSED" /\ f + 1 >= threshold
         THEN [state |-> "OPEN", failures |-> f + 1]
    ELSE [state |-> st, failures |-> f + 1]

\* _transition: self._last_state_change after moving (or not) to `new`.
transition(old, new) == IF new /= old THEN now ELSE cb_last_state_change

\* call(), up to the await of the wrapped function: the lock is taken and
\* released without suspension, so the admission check is one step.
call(p) ==
    /\ cb_pc[p] = "idle"
    /\ LET r == check_allowed(cb_state, now, cb_last_failure_time, cb_cooldown) IN
       /\ cb_state' = r.state
       /\ cb_last_state_change' = transition(cb_state, r.state)
       /\ cb_successes_in_half_open' =
            IF cb_state = "OPEN" /\ r.allowed THEN 0 ELSE cb_successes_in_half_open
       /\ IF r.allowed
          THEN /\ cb_pc' = [cb_pc EXCEPT ![p] = "running"]
               /\ cb_admit' = [cb_admit EXCEPT ![p] = r.state]
               /\ cb_result' = [cb_result EXCEPT ![p] = "none"]
          ELSE /\ cb_result' = [cb_result EXCEPT ![p] = "CircuitOpenError"]
               /\ UNCHANGED <<cb_pc, cb_admit>>
       /\ cb_streak' = IF r.state /= cb_state THEN -1 ELSE cb_streak
    /\ UNCHANGED <<now, cb_threshold, cb_cooldown, cb_failures, cb_last_failure_time>>
    /\ UNCHANGED <<rlVars, agVars, ctVars, rtVars, clVars, ptVars, piVars, phVars>>

\* The wrapped function returned: call() records the success and returns.
call_returns(p) ==
    /\ cb_pc[p] = "running"
    /\ LET r == record_success(cb_state, cb_failures) IN
       /\ cb_state' = r.state
       /\ cb_failures' = r.failures
       /\ cb_last_state_change' = transition(cb_state, r.state)
       /\ cb_streak' = IF r.state = "CLOSED" /\ r.failures = 0 THEN 0 ELSE -1
    /\ cb_successes_in_half_open' = 0
    /\ cb_pc' = [cb_pc EXCEPT ![p] = "idle"]
    /\ cb_admit' = [cb_admit EXCEPT ![p] = "none"]
    /\ cb_result' = [cb_result EXCEPT ![p] = "returned"]
    /\ UNCHANGED <<now, cb_threshold, cb_cooldown, cb_last_failure_time>>
    /\ UNCHANGED <<rlVars, agVars, ctVars, rtVars, clVars, ptVars, piVars, phVars>>

\* The wrapped function raised: call() records the failure and re-raises.
call_raises(p) ==
    /\ cb_pc[p] = "running"
    /\ LET r == record_failure(cb_state, cb_failures, cb_threshold) IN
       /\ cb_state' = r.state
       /\ cb_failures' = r.failures
       /\ cb_last_state_change' = transition(cb_state, r.state)
    /\ cb_last_failure_time' = now
    /\ cb_successes_in_half_open' = 0
    /\ cb_streak' = IF cb_streak >= 0 THEN cb_streak + 1 ELSE -1
    /\ cb_pc' = [cb_pc EXCEPT ![p] = "idle"]
    /\ cb_admit' = [cb_admit EXCEPT ![p] = "none"]
    /\ cb_result' = [cb_result EXCEPT ![p] = "raised"]
    /\ UNCHANGED <<now, cb_threshold, cb_cooldown>>
    /\ UNCHANGED <<rlVars, agVars, ctVars, rtVars, clVars, ptVars, piVars, phVars>>

\* reset(): manual reset, force back to CLOSED.
CircuitBreaker_reset ==
    /\ cb_failures' = 0
    /\ cb_successes_in_half_open' = 0
    /\ cb_state' = "CLOSED"
    /\ cb_last_state_change' = now
    /\ cb_streak' = 0
    /\ UNCHANGED <<now, cb_threshold, cb_cooldown, cb_last_failure_time,
                   cb_pc, cb_admit, cb_result>>
    /\ UNCHANGED <<rlVars, agVars, ctVars, rtVars, clVars, ptVars, piVars, phVars>>

\* CircuitBreaker.__init__ with the configured threshold and cooldown.
InitBreaker ==
    /\ cb_threshold \in 1..MaxThreshold
    /\ cb_cooldown \in 1..MaxCooldown
    /\ cb_state = "CLOSED"
    /\ cb_failures = 0
    /\ cb_successes_in_half_open = 0
    /\ cb_last_failure_time = 0
    /\ cb_last_state_change = 0
    /\ cb_pc = [p \in Callers |-> "idle"]
    /\ cb_admit = [p \in Callers |-> "none"]
    /\ cb_result = [p \in Callers |-> "none"]
    /\ cb_streak = 0

\* ================================================ SlidingWindowRateLimiter
Sources == {"voice", "text"}
TicksPerTenth == 5
DefaultLimit == 15
DefaultWindowTicks == 3000
Min(a, b) == IF a <= b THEN a ELSE b

\* self._limits.get(source, 15) and self._window_secs.get(source, 60.0)
LimitOf(s) == IF s \in DOMAIN rl_limits THEN rl_limits[s] ELSE DefaultLimit
WindowOf(s) ==
    IF s \in DOMAIN rl_window_secs THEN rl_window_secs[s] ELSE DefaultWindowTicks

\* while window and window[0] < cutoff: window.popleft()
Evict_none(w, cutoff) == w
Evict_one(w, cutoff) == IF w /= <<>> /\ Head(w) < cutoff THEN Tail(w) ELSE w
RECURSIVE Evict_le(_, _)
Evict_le(w, cutoff) ==
    IF w /= <<>> /\ Head(w) <= cutoff THEN Evict_le(Tail(w), cutoff) ELSE w
RECURSIVE Evict(_, _)
Evict(w, cutoff) ==
    IF w /= <<>> /\ Head(w) < cutoff THEN Evict(Tail(w), cutoff) ELSE w

\* round(max(0.0, retry_after), 1): ticks in, tenths of a second out
\* (2 ticks = 0.04 s rounds to 0.0, 3 ticks = 0.06 s rounds to 0.1).
round1_floor(ticks) == Max(0, ticks) \div TicksPerTenth
round1(ticks) == (Max(0, ticks) + (TicksPerTenth \div 2)) \div TicksPerTenth

\* check(source): the window it leaves and what it returns or raises.
check_outcome(s) ==
    LET limit == LimitOf(s)
        window_sec == WindowOf(s)
        cutoff == now - window_sec
        w0 == IF s \in DOMAIN rl_windows THEN rl_windows[s] ELSE <<>>
        window == Evict(w0, cutoff)
    IN  IF Len(window) >= limit
        THEN IF window = <<>>
             THEN [window |-> window,
                   result |-> [kind |-> "IndexError", source |-> s]]
             ELSE [window |-> window,
                   result |-> [kind |-> "rejected", allowed |-> FALSE,
                               remaining |-> 0,
                               retry_after |-> round1((window[1] + window_sec) - now),
                               limit |-> limit, source |-> s]]
        ELSE [window |-> Append(window, now),
              result |-> [kind |-> "accepted", allowed |-> TRUE,
                          remaining |-> limit - (Len(window) + 1),
                          limit |-> limit, source |-> s]]

check_update(s) ==
    LET o == check_outcome(s)
        w0 == IF s \in DOMAIN rl_windows THEN rl_windows[s] ELSE <<>>
        \* no timestamp of the last window duration is recorded
        fresh == \A i \in 1..Len(w0) : w0[i] < now - WindowOf(s)
    IN /\ rl_windows' = [x \in DOMAIN rl_windows \cup {s} |->
                             IF x = s THEN o.window ELSE rl_windows[x]]
       /\ rl_result' = o.result
       /\ rl_burst' = [rl_burst EXCEPT ![s] =
             IF fresh THEN [t0 |-> now, n |-> 1]
             ELSE [t0 |-> @.t0, n |-> Min(@.n + 1, LimitOf(s) + 2)]]
       /\ rl_rejected' = [rl_rejected EXCEPT ![s] =
             IF o.result.kind = "rejected" THEN 1
             ELSE IF o.result.kind = "accepted" THEN (IF @ = 1 THEN 2 ELSE 0)
             ELSE @]
       /\ rl_accepted' = [rl_accepted EXCEPT ![s] =
             LET recent == SelectSeq(@, LAMBDA t : t >= now - WindowOf(s))
             IN IF o.result.kind = "accepted" THEN Append(recent, now)
                ELSE recent]

check(s) ==
    /\ check_update(s)
    /\ UNCHANGED <<now, rl_limits, rl_window_secs>>
    /\ UNCHANGED <<cbVars, agVars, ctVars, rtVars, clVars, ptVars, piVars, phVars>>

\* reset(source): self._windows.pop(source, None)
SlidingWindowRateLimiter_reset_clears(s) ==
    /\ rl_windows' = <<>>
    /\ rl_burst' = [rl_burst EXCEPT ![s] = [t0 |-> 0, n |-> 0]]
    /\ rl_rejected' = [rl_rejected EXCEPT ![s] = 0]
    /\ rl_accepted' = [rl_accepted EXCEPT ![s] = <<>>]
    /\ rl_result' = [kind |-> "none"]
    /\ UNCHANGED <<now, rl_limits, rl_window_secs>>
    /\ UNCHANGED <<cbVars, agVars, ctVars, rtVars, clVars, ptVars, piVars, phVars>>
SlidingWindowRateLimiter_reset(s) ==
    /\ rl_windows' = [x \in DOMAIN rl_windows \ {s} |-> rl_windows[x]]
    /\ rl_burst' = [rl_burst EXCEPT ![s] = [t0 |-> 0, n |-> 0]]
    /\ rl_rejected' = [rl_rejected EXCEPT ![s] = 0]
    /\ rl_accepted' = [rl_accepted EXCEPT ![s] = <<>>]
    /\ rl_result' = [kind |-> "none"]
    /\ UNCHANGED <<now, rl_limits, rl_window_secs>>
    /\ UNCHANGED <<cbVars, agVars, ctVars, rtVars, clVars, ptVars, piVars, phVars>>

\* reset(): self._windows.clear()
SlidingWindowRateLimiter_reset_all ==
    /\ rl_windows' = <<>>
    /\ rl_burst' = [s \in Sources |-> [t0 |-> 0, n |-> 0]]
    /\ rl_rejected' = [s \in Sources |-> 0]
    /\ rl_accepted' = [s \in Sources |-> <<>>]
    /\ rl_result' = [kind |-> "none"]
    /\ UNCHANGED <<now, rl_limits, rl_window_secs>>
    /\ UNCHANGED <<cbVars, agVars, ctVars, rtVars, clVars, ptVars, piVars, phVars>>

\* SlidingWindowRateLimiter() followed by configure(source, max_requests,
\* window_sec) for each source: every limit for "voice", limit 1 for "text".
InitLimiter ==
    /\ rl_limits \in {l \in [Sources -> 0..MaxLimit] : l["text"] = 1}
    /\ rl_window_secs \in [Sources -> {MaxWindow}]
    /\ rl_windows = <<>>
    /\ rl_result = [kind |-> "none"]
    /\ rl_burst = [s \in Sources |-> [t0 |-> 0, n |-> 0]]
    /\ rl_rejected = [s \in Sources |-> 0]
    /\ rl_accepted = [s \in Sources |-> <<>>]


\* ============================================================= JarvisAgent
QueueMaxsize == 5
Drain == 0
Handlers == 1..NumTasks
Tasks == Handlers \cup {Drain}
AgentState == {"IDLE", "LISTENING", "THINKING", "EXECUTING", "SPEAKING", "ERROR"}
\* Where a task stands between `async with self._interaction_lock:` and the
\* release of the lock.
RegionPcs == {"exec", "listening", "thinking", "executing", "summarizing",
              "speaking", "except", "finally", "release"}
InRegion(x) == ag_pc[x] \in RegionPcs

\* `async with self._interaction_lock` (asyncio.Lock.acquire): the lock is
\* taken at once when it is free and nobody waits for it; otherwise the task
\* joins the waiters.
enter_unlocked(x, locked, waiters) ==
    [locked |-> TRUE, waiters |-> waiters, pc |-> "exec"]
enter_unqueued(x, locked, waiters) ==
    IF ~locked /\ waiters = <<>>
    THEN [locked |-> TRUE, waiters |-> waiters, pc |-> "exec"]
    ELSE [locked |-> locked, waiters |-> waiters, pc |-> "wait_lock"]
enter(x, locked, waiters) ==
    IF ~locked /\ waiters = <<>>
    THEN [locked |-> TRUE, waiters |-> waiters, pc |-> "exec"]
    ELSE [locked |-> locked, waiters |-> Append(waiters, x), pc |-> "wait_lock"]

\* handle_text_input, lock held: put_nowait(text); on QueueFull drop the
\* oldest entry (get_nowait) and put the new one.
enqueue_drop_newest(q, text) ==
    IF Len(q) < QueueMaxsize THEN Append(q, text) ELSE q
enqueue(q, text) ==
    IF Len(q) < QueueMaxsize THEN Append(q, text) ELSE Append(Tail(q), text)

\* handle_text_input(text) up to its first suspension.
handle_text_input(t) ==
    /\ ag_pc[t] = "idle"
    /\ ag_next <= MaxTexts
    /\ ag_next' = ag_next + 1
    /\ IF ag_locked
       THEN /\ ag_queue' = enqueue(ag_queue, ag_next)
            /\ ag_evicted' = IF Len(ag_queue) < QueueMaxsize THEN ag_evicted
                             ELSE ag_evicted \cup {Head(ag_queue)}
            /\ ag_pc' = [ag_pc EXCEPT ![t] =
                            IF Len(ag_queue) < QueueMaxsize THEN "notify" ELSE "idle"]
            /\ ag_kind' = [ag_kind EXCEPT ![t] =
                            IF Len(ag_queue) < QueueMaxsize THEN "text" ELSE "none"]
            /\ UNCHANGED <<ag_locked, ag_waiters, ag_text>>
       ELSE /\ LET e == enter(t, ag_locked, ag_waiters) IN
                /\ ag_locked' = e.locked
                /\ ag_waiters' = e.waiters
                /\ ag_pc' = [ag_pc EXCEPT ![t] = e.pc]
            /\ ag_kind' = [ag_kind EXCEPT ![t] = "text"]
            /\ ag_text' = [ag_text EXCEPT ![t] = ag_next]
            /\ UNCHANGED <<ag_queue, ag_evicted>>
    /\ UNCHANGED <<ag_state, ag_woken, ag_cancelled, ag_ignored>>
    /\ UNCHANGED <<ag_raising, now, cbVars, rlVars, ctVars, rtVars, clVars, ptVars, piVars, phVars>>

\* handle_text_input, queued path: the "input_queued" broadcast returned.
input_queued(t) ==
    /\ ag_pc[t] = "notify"
    /\ ag_pc' = [ag_pc EXCEPT ![t] = "idle"]
    /\ ag_kind' = [ag_kind EXCEPT ![t] = "none"]
    /\ UNCHANGED <<ag_state, ag_locked, ag_waiters, ag_woken, ag_queue,
                   ag_text, ag_next, ag_evicted, ag_cancelled, ag_ignored>>
    /\ UNCHANGED <<ag_raising, now, cbVars, rlVars, ctVars, rtVars, clVars, ptVars, piVars, phVars>>

\* handle_voice_interaction() up to its first suspension: a voice trigger is
\* ignored while the lock is held.
handle_voice_interaction_waits(t) ==
    /\ ag_pc[t] = "idle"
    /\ LET e == enter(t, ag_locked, ag_waiters) IN
        /\ ag_locked' = e.locked
        /\ ag_waiters' = e.waiters
        /\ ag_pc' = [ag_pc EXCEPT ![t] = e.pc]
    /\ ag_kind' = [ag_kind EXCEPT ![t] = "voice"]
    /\ UNCHANGED <<ag_state, ag_woken, ag_queue, ag_text, ag_next, ag_evicted,
                   ag_cancelled, ag_ignored>>
    /\ UNCHANGED <<ag_raising, now, cbVars, rlVars, ctVars, rtVars, clVars, ptVars, piVars, phVars>>
handle_voice_interaction(t) ==
    /\ ag_pc[t] = "idle"
    /\ IF ag_locked
       THEN /\ ag_ignored' = TRUE
            /\ UNCHANGED <<ag_locked, ag_waiters, ag_pc, ag_kind>>
       ELSE /\ LET e == enter(t, ag_locked, ag_waiters) IN
                /\ ag_locked' = e.locked
                /\ ag_waiters' = e.waiters
                /\ ag_pc' = [ag_pc EXCEPT ![t] = e.pc]
            /\ ag_kind' = [ag_kind EXCEPT ![t] = "voice"]
            /\ UNCHANGED ag_ignored
    /\ UNCHANGED <<ag_state, ag_woken, ag_queue, ag_text, ag_next, ag_evicted,
                   ag_cancelled>>
    /\ UNCHANGED <<ag_raising, now, cbVars, rlVars, ctVars, rtVars, clVars, ptVars, piVars, phVars>>

\* asyncio.Lock.acquire resumed: the woken first waiter takes the lock.
lock_granted(x) ==
    /\ ag_pc[x] = "wait_lock"
    /\ ag_woken
    /\ ag_waiters /= <<>> /\ Head(ag_waiters) = x
    /\ ag_waiters' = Tail(ag_waiters)
    /\ ag_woken' = FALSE
    /\ ag_locked' = TRUE
    /\ ag_pc' = [ag_pc EXCEPT ![x] = "exec"]
    /\ UNCHANGED <<ag_state, ag_queue, ag_kind, ag_text, ag_next, ag_evicted,
                   ag_cancelled, ag_ignored>>
    /\ UNCHANGED <<ag_raising, now, cbVars, rlVars, ctVars, rtVars, clVars, ptVars, piVars, phVars>>

\* _process_text_queue: `text = await self._text_queue.get()` returns the
\* oldest entry, then `async with self._interaction_lock`.
drain_get ==
    /\ ag_pc[Drain] = "get"
    /\ ag_queue /= <<>>
    /\ ag_queue' = Tail(ag_queue)
    /\ ag_text' = [ag_text EXCEPT ![Drain] = Head(ag_queue)]
    /\ LET e == enter(Drain, ag_locked, ag_waiters) IN
        /\ ag_locked' = e.locked
        /\ ag_waiters' = e.waiters
        /\ ag_pc' = [ag_pc EXCEPT ![Drain] = e.pc]
    /\ UNCHANGED <<ag_state, ag_woken, ag_kind, ag_next, ag_evicted, ag_cancelled, ag_ignored>>
    /\ UNCHANGED <<ag_raising, now, cbVars, rlVars, ctVars, rtVars, clVars, ptVars, piVars, phVars>>

IsVoice(x) == x /= Drain /\ ag_kind[x] = "voice"

\* One step of the turn inside the lock: the state it sets and where the
\* task stands next.
\*   voice: LISTENING, then on speech _process_text, then LISTENING again
\*   text:  _execute_text_input -> _process_text
turn_step(x, from, to, st) ==
    /\ ag_pc[x] = from
    /\ ag_pc' = [ag_pc EXCEPT ![x] = to]
    /\ ag_state' = st
    /\ UNCHANGED <<ag_locked, ag_waiters, ag_woken, ag_queue, ag_kind,
                   ag_text, ag_next, ag_evicted, ag_cancelled, ag_ignored>>
    /\ UNCHANGED <<ag_raising, now, cbVars, rlVars, ctVars, rtVars, clVars, ptVars, piVars, phVars>>

\* After the tools: _summarize_tool_results -> _set_state(THINKING).
summarize_tool_results_speaks(x) == turn_step(x, "executing", "speaking", "SPEAKING")
summarize_tool_results(x) == turn_step(x, "executing", "summarizing", "THINKING")

turn(x) ==
    \* handle_voice_interaction: _set_state(LISTENING)
    \/ IsVoice(x) /\ turn_step(x, "exec", "listening", "LISTENING")
    \* record_and_transcribe returned text: _process_text -> THINKING
    \/ IsVoice(x) /\ turn_step(x, "listening", "thinking", "THINKING")
    \* no speech: break out of the conversation loop
    \/ IsVoice(x) /\ turn_step(x, "listening", "finally", ag_state)
    \* _execute_text_input -> _process_text: _set_state(THINKING)
    \/ ~IsVoice(x) /\ turn_step(x, "exec", "thinking", "THINKING")
    \* _process_text returns without speaking (rate limited, or PersonaPlex
    \* handles the voice)
    \/ ~IsVoice(x) /\ turn_step(x, "thinking", "finally", ag_state)
    \/ IsVoice(x) /\ turn_step(x, "thinking", "listening", "LISTENING")
    \* tools: _set_state(EXECUTING), then _summarize_tool_results -> THINKING
    \/ turn_step(x, "thinking", "executing", "EXECUTING")
    \/ summarize_tool_results(x)
    \* _set_state(SPEAKING); tts.speak
    \/ turn_step(x, "thinking", "speaking", "SPEAKING")
    \/ turn_step(x, "summarizing", "speaking", "SPEAKING")
    \/ ~IsVoice(x) /\ turn_step(x, "speaking", "finally", ag_state)
    \/ IsVoice(x) /\ turn_step(x, "speaking", "listening", "LISTENING")

\* Something inside the turn raised.
turn_raises(x) ==
    /\ ag_pc[x] \in {"exec", "listening", "thinking", "executing",
                     "summarizing", "speaking"}
    /\ turn_step(x, ag_pc[x], "except", ag_state)

\* except Exception: the handlers set ERROR, the drain task only logs.
turn_except(x) ==
    turn_step(x, "except", "finally", IF x = Drain THEN ag_state ELSE "ERROR")

\* The end of `async with`: the lock is released and the first waiter woken.
\* A handler task ends, returning or with the exception that is leaving the
\* turn. The drain task goes on to its next get(), taking the next entry at
\* once if there is one; an exception leaving the turn is caught by the outer
\* `except Exception` (log, sleep(1)); when the task was cancelled, the
\* CancelledError reaches `except asyncio.CancelledError: break` and it ends.
release(x, cancelled, raising) ==
    /\ ag_woken' = (ag_waiters /= <<>>)
    /\ IF x = Drain /\ ~cancelled /\ ~raising /\ ag_queue /= <<>>
       THEN /\ ag_queue' = Tail(ag_queue)
            /\ ag_text' = [ag_text EXCEPT ![x] = Head(ag_queue)]
            /\ LET e == enter(x, FALSE, ag_waiters) IN
                /\ ag_locked' = e.locked
                /\ ag_waiters' = e.waiters
                /\ ag_pc' = [ag_pc EXCEPT ![x] = e.pc]
            /\ UNCHANGED ag_kind
       ELSE /\ ag_locked' = FALSE
            /\ ag_pc' = [ag_pc EXCEPT ![x] =
                            IF x /= Drain THEN (IF raising THEN "raised" ELSE "idle")
                            ELSE IF raising THEN "sleep"
                            ELSE IF cancelled THEN "done" ELSE "get"]
            /\ ag_text' = [ag_text EXCEPT ![x] = 0]
            /\ ag_kind' = IF x = Drain THEN ag_kind
                          ELSE [ag_kind EXCEPT ![x] = "none"]
            /\ UNCHANGED <<ag_queue, ag_waiters>>
    /\ ag_cancelled' = FALSE
    /\ ag_raising' = FALSE
    /\ ag_ignored' = FALSE
    /\ UNCHANGED <<ag_next, ag_evicted>>
    /\ UNCHANGED <<now, cbVars, rlVars, ctVars, rtVars, clVars, ptVars, piVars, phVars>>

\* finally: if self.state != IDLE: await self._set_state(IDLE)
turn_finally_skip(x) ==
    /\ ag_pc[x] = "finally"
    /\ release(x, ag_cancelled, ag_raising)
    /\ UNCHANGED ag_state
turn_finally(x) ==
    /\ ag_pc[x] = "finally"
    /\ IF ag_state /= "IDLE"
       THEN turn_step(x, "finally", "release", "IDLE")
       ELSE release(x, ag_cancelled, ag_raising) /\ UNCHANGED ag_state

\* The state_change broadcast of the finally block returned.
turn_release(x) ==
    /\ ag_pc[x] = "release"
    /\ release(x, ag_cancelled, ag_raising)
    /\ UNCHANGED ag_state

\* task.cancel() on a task that is suspended inside its turn: CancelledError
\* is raised at the await it stands at. `except Exception` does not catch it;
\* the finally block and the end of `async with` run.
cancel(x) ==
    \/ /\ ag_pc[x] \in {"exec", "listening", "thinking", "executing",
                         "summarizing", "speaking"}
       /\ ag_pc' = [ag_pc EXCEPT ![x] = "finally"]
       /\ ag_cancelled' = TRUE
       /\ UNCHANGED <<ag_state, ag_locked, ag_waiters, ag_woken, ag_queue,
                      ag_kind, ag_text, ag_next, ag_evicted, ag_ignored>>
       /\ UNCHANGED <<ag_raising, now, cbVars, rlVars, ctVars, rtVars, clVars, ptVars, piVars, phVars>>
    \* in the except block of a handler, at the broadcast of _set_state(ERROR)
    \/ /\ ag_pc[x] = "except"
       /\ x /= Drain
       /\ ag_pc' = [ag_pc EXCEPT ![x] = "finally"]
       /\ ag_state' = "ERROR"
       /\ ag_cancelled' = TRUE
       /\ UNCHANGED <<ag_locked, ag_waiters, ag_woken, ag_queue,
                      ag_kind, ag_text, ag_next, ag_evicted, ag_ignored>>
       /\ UNCHANGED <<ag_raising, now, cbVars, rlVars, ctVars, rtVars, clVars, ptVars, piVars, phVars>>
    \* in the finally block, at the broadcast of _set_state(IDLE)
    \/ /\ ag_pc[x] = "release"
       /\ release(x, TRUE, ag_raising)
       /\ UNCHANGED ag_state

\* The broadcast callback raises at the await the task stands at:
\* _broadcast_message awaits self._broadcast(message) with no try/except.
sink_raises(x) ==
    \* inside the body of the turn (transcript, state_change, route_decision,
    \* response_chunk, response_complete, ...): the exception reaches the
    \* except block of the turn
    \/ /\ ag_pc[x] \in {"exec", "listening", "thinking", "executing",
                         "summarizing", "speaking"}
       /\ turn_step(x, ag_pc[x], "except", ag_state)
    \* in the except block of a handler: _set_state(ERROR) has assigned the
    \* state, its broadcast raises, the finally block runs
    \/ /\ ag_pc[x] = "except"
       /\ x /= Drain
       /\ ag_pc' = [ag_pc EXCEPT ![x] = "finally"]
       /\ ag_state' = "ERROR"
       /\ ag_raising' = TRUE
       /\ UNCHANGED <<ag_locked, ag_waiters, ag_woken, ag_queue, ag_kind,
                      ag_text, ag_next, ag_evicted, ag_cancelled, ag_ignored>>
       /\ UNCHANGED <<now, cbVars, rlVars, ctVars, rtVars, clVars, ptVars, piVars, phVars>>
    \* in the finally block: _set_state(IDLE) has assigned the state, its
    \* broadcast raises
    \/ /\ ag_pc[x] = "release"
       /\ release(x, ag_cancelled, TRUE)
       /\ UNCHANGED ag_state
    \* handle_text_input, queued path: the "input_queued" broadcast raises; it
    \* is inside `try: ... except asyncio.QueueFull`, which does not catch it
    \/ /\ ag_pc[x] = "notify"
       /\ ag_pc' = [ag_pc EXCEPT ![x] = "raised"]
       /\ ag_kind' = [ag_kind EXCEPT ![x] = "none"]
       /\ UNCHANGED <<ag_state, ag_locked, ag_waiters, ag_woken, ag_queue,
                      ag_text, ag_next, ag_evicted, ag_cancelled, ag_ignored>>
       /\ UNCHANGED <<ag_raising, now, cbVars, rlVars, ctVars, rtVars, clVars, ptVars, piVars, phVars>>

\* The task of a handler that raised is finished: nobody awaits it
\* (main.py starts the handlers with asyncio.create_task).
task_exception(t) ==
    /\ ag_pc[t] = "raised"
    /\ ag_pc' = [ag_pc EXCEPT ![t] = "idle"]
    /\ UNCHANGED <<ag_state, ag_locked, ag_waiters, ag_woken, ag_queue, ag_kind,
                   ag_text, ag_next, ag_evicted, ag_cancelled, ag_ignored>>
    /\ UNCHANGED <<ag_raising, now, cbVars, rlVars, ctVars, rtVars, clVars, ptVars, piVars, phVars>>

\* _process_text_queue: `except Exception: ... await asyncio.sleep(1)` is over,
\* the loop goes back to get().
drain_slept ==
    /\ ag_pc[Drain] = "sleep"
    /\ ag_pc' = [ag_pc EXCEPT ![Drain] = "get"]
    /\ UNCHANGED <<ag_state, ag_locked, ag_waiters, ag_woken, ag_queue, ag_kind,
                   ag_text, ag_next, ag_evicted, ag_cancelled, ag_ignored>>
    /\ UNCHANGED <<ag_raising, now, cbVars, rlVars, ctVars, rtVars, clVars, ptVars, piVars, phVars>>

\* JarvisAgent.__init__ and initialize(): the drain task is started.
InitAgent ==
    /\ ag_state = "IDLE"
    /\ ag_locked = FALSE
    /\ ag_waiters = <<>>
    /\ ag_woken = FALSE
    /\ ag_queue = <<>>
    /\ ag_pc = [x \in Tasks |-> IF x = Drain THEN "get" ELSE "idle"]
    /\ ag_kind = [t \in Handlers |-> "none"]
    /\ ag_text = [x \in Tasks |-> 0]
    /\ ag_next = 1
    /\ ag_evicted = {}
    /\ ag_cancelled = FALSE
    /\ ag_ignored = FALSE
    /\ ag_raising = FALSE

\* ============================================================ CostTracker
UnitsPerRound == 5
Costs == {1, MaxCost \div 2, MaxCost}

\* round(result, 4): money units in, money units out, a multiple of 0.0001 USD.
round4_exact(x) == x
round4(x) == ((x + (UnitsPerRound \div 2)) \div UnitsPerRound) * UnitsPerRound

\* `timestamp >= ?` in SQL: TEXT values compare left to right, and a value
\* that extends the other is the greater one.
RECURSIVE TextGE(_, _)
TextGE(a, b) ==
    IF b = <<>> THEN TRUE
    ELSE IF a = <<>> THEN FALSE
    ELSE IF Head(a) /= Head(b) THEN Head(a) > Head(b)
    ELSE TextGE(Tail(a), Tail(b))

\* datetime.now().isoformat(): the date followed by the time of day.
isoformat_now == <<ct_today[1], ct_today[2], 0>>

\* SELECT COALESCE(SUM(cost_usd), 0) FROM claude_usage WHERE timestamp >= ?
RECURSIVE SumSince(_, _)
SumSince(ledger, since) ==
    IF ledger = <<>> THEN 0
    ELSE (IF TextGE(Head(ledger).timestamp, since) THEN Head(ledger).cost_usd ELSE 0)
         + SumSince(Tail(ledger), since)

\* get_daily_spend(): today = date.today().isoformat()
get_daily_spend == round4(SumSince(ct_ledger, <<ct_today[1], ct_today[2]>>))
\* get_monthly_spend(): month_start = date.today().replace(day=1).isoformat()
get_monthly_spend == round4(SumSince(ct_ledger, <<ct_today[1], 1>>))

\* can_afford(): the (allowed, reason) pair it returns when the ledger can
\* be read; the reason is given without the amounts formatted into it.
can_afford_result ==
    IF get_daily_spend >= ct_daily_limit
    THEN [kind |-> "returned", allowed |-> FALSE, reason |-> "Daily budget exhausted"]
    ELSE IF get_monthly_spend >= ct_monthly_limit
    THEN [kind |-> "returned", allowed |-> FALSE, reason |-> "Monthly budget exhausted"]
    ELSE [kind |-> "returned", allowed |-> TRUE, reason |-> ""]

\* can_afford(); sqlite3 raises when the database cannot be read.
can_afford(db_fails) ==
    /\ ct_verdict' = IF db_fails THEN [kind |-> "raised"] ELSE can_afford_result
    /\ ct_refused' = (ct_refused \/ (~db_fails /\ ~can_afford_result.allowed))
    /\ UNCHANGED <<ct_daily_limit, ct_monthly_limit, ct_ledger, ct_today>>
    /\ UNCHANGED <<now, cbVars, rlVars, agVars, rtVars, clVars, ptVars, piVars, phVars>>

\* log_usage(...): what it returns or raises and the ledger it leaves; the
\* INSERT and the commit are not guarded, so sqlite3's exception leaves it.
log_usage_result(cost, db_fails) ==
    IF db_fails
    THEN [kind |-> "raised", ledger |-> ct_ledger]
    ELSE [kind |-> "returned", cost |-> cost,
          ledger |-> Append(ct_ledger, [timestamp |-> isoformat_now, cost_usd |-> cost])]

\* get_report(): the spends and the warning flag of the dashboard report
\* (_WARN_THRESHOLD is 0.8); it only reads the ledger.
get_report ==
    [today_spend |-> get_daily_spend,
     today_calls |-> Cardinality({i \in 1..Len(ct_ledger) :
                        TextGE(ct_ledger[i].timestamp, <<ct_today[1], ct_today[2]>>)}),
     month_spend |-> get_monthly_spend,
     warning |-> \/ get_daily_spend * 10 >= ct_daily_limit * 8
                 \/ get_monthly_spend * 10 >= ct_monthly_limit * 8]

\* log_usage(...): one row with the time of the call and the calculated cost.
log_usage_overwrite(cost) ==
    /\ Len(ct_ledger) < MaxRecords
    /\ ct_ledger' = <<[timestamp |-> isoformat_now, cost_usd |-> cost]>>
    /\ UNCHANGED <<ct_daily_limit, ct_monthly_limit, ct_today, ct_verdict, ct_refused>>
    /\ UNCHANGED <<now, cbVars, rlVars, agVars, rtVars, clVars, ptVars, piVars, phVars>>
log_usage_refund(cost) ==
    /\ Len(ct_ledger) < MaxRecords
    /\ ct_ledger' = Append(ct_ledger, [timestamp |-> isoformat_now, cost_usd |-> 0 - cost])
    /\ UNCHANGED <<ct_daily_limit, ct_monthly_limit, ct_today, ct_verdict, ct_refused>>
    /\ UNCHANGED <<now, cbVars, rlVars, agVars, rtVars, clVars, ptVars, piVars, phVars>>
log_usage(cost) ==
    /\ Len(ct_ledger) < MaxRecords
    /\ ct_ledger' = Append(ct_ledger, [timestamp |-> isoformat_now, cost_usd |-> cost])
    /\ UNCHANGED <<ct_daily_limit, ct_monthly_limit, ct_today, ct_verdict, ct_refused>>
    /\ UNCHANGED <<now, cbVars, rlVars, agVars, rtVars, clVars, ptVars, piVars, phVars>>

\* The calendar day ends.
midnight ==
    /\ IF ct_today[2] < DaysPerMonth
       THEN ct_today' = <<ct_today[1], ct_today[2] + 1>>
       ELSE /\ ct_today[1] < MaxMonth
            /\ ct_today' = <<ct_today[1] + 1, 1>>
    /\ ct_refused' = FALSE
    /\ UNCHANGED <<ct_daily_limit, ct_monthly_limit, ct_ledger, ct_verdict>>
    /\ UNCHANGED <<now, cbVars, rlVars, agVars, rtVars, clVars, ptVars, piVars, phVars>>

\* CostTracker.__init__ on a new database, with the configured ceilings.
InitCost ==
    /\ ct_daily_limit \in {k * UnitsPerRound : k \in 1..MaxDailyLimit}
    /\ ct_monthly_limit = MaxMonthlyLimit * UnitsPerRound
    /\ ct_ledger = <<>>
    /\ ct_today = <<1, 1>>
    /\ ct_verdict = [kind |-> "none"]
    /\ ct_refused = FALSE

\* =========================================================== IntentRouter
GreetingMaxWords == 6
SimpleWordThreshold == 15
ComplexWordThreshold == 80
WordCounts == {GreetingMaxWords, GreetingMaxWords + 1,
               SimpleWordThreshold, SimpleWordThreshold + 1,
               ComplexWordThreshold, ComplexWordThreshold + 1}

\* A text, by what the matchers see of it: which regular expressions match
\* text.lower().strip(), which tool pattern matches first, and
\* len(text.split()).
Texts ==
    [greeting_re : BOOLEAN, tool : {"none", "weather.current"},
     wants_claude : BOOLEAN, complex_code : BOOLEAN, analysis : BOOLEAN,
     planning : BOOLEAN, coding : BOOLEAN, simple_q_re : BOOLEAN,
     words : WordCounts]

RouteDecision(target, confidence, intent_type, reason, tool_hint, tool_args_hint) ==
    [kind |-> "returned", target |-> target, confidence |-> confidence,
     intent_type |-> intent_type, reason |-> reason, tool_hint |-> tool_hint,
     tool_args_hint |-> tool_args_hint]

\* _is_greeting
is_greeting_any(text) == text.greeting_re
is_greeting(text) == text.greeting_re /\ text.words <= GreetingMaxWords

\* _is_simple_question
is_simple_question(text) ==
    IF text.words > SimpleWordThreshold THEN FALSE ELSE text.simple_q_re

\* _match_direct_tool: (tool_name, args, confidence) or None; the arguments
\* are named here by the builder that made them.
match_direct_tool(text, builder_raises) ==
    IF text.tool = "none" THEN [matched |-> FALSE]
    ELSE IF ~builder_raises
         THEN [matched |-> TRUE, name |-> text.tool, args |-> "built", conf |-> 90]
         ELSE [matched |-> TRUE, name |-> text.tool, args |-> "empty", conf |-> 70]

\* _rule_classify; confidences in hundredths.
rule_classify(text, builder_raises) ==
    LET tool_match == match_direct_tool(text, builder_raises) IN
    IF is_greeting(text)
    THEN RouteDecision("ollama", 95, "greeting", "Greeting/farewell detected", "", "empty")
    ELSE IF tool_match.matched
    THEN RouteDecision("tool_direct", tool_match.conf, "action", "Direct tool",
                       tool_match.name, tool_match.args)
    ELSE IF text.wants_claude
    THEN RouteDecision("claude", 95, "analysis", "User explicitly requested Claude", "", "empty")
    ELSE IF text.complex_code
    THEN RouteDecision("claude", 85, "coding", "Complex coding/architecture task", "", "empty")
    ELSE IF text.analysis
    THEN RouteDecision("claude", 80, "analysis", "Analysis/research task", "", "empty")
    ELSE IF text.planning
    THEN RouteDecision("claude", 80, "planning", "Planning/multi-step task", "", "empty")
    ELSE IF text.coding
    THEN RouteDecision("ollama", 70, "coding", "Simple coding task", "", "empty")
    ELSE IF is_simple_question(text)
    THEN RouteDecision("ollama", 80, "question", "Simple question", "", "empty")
    ELSE IF text.words > ComplexWordThreshold
    THEN RouteDecision("claude", 65, "analysis", "Long query", "", "empty")
    ELSE RouteDecision("ollama", 50, "chitchat", "Default: simple/chitchat", "", "empty")

\* _gate_claude: the decision it returns, or the exception of can_afford()
\* passing through it.
gate_claude_key_only(decision, db_fails) ==
    IF ~rt_api_key
    THEN RouteDecision("ollama", decision.confidence, decision.intent_type,
                       "Claude API key not set", "", "empty")
    ELSE decision
gate_claude(decision, db_fails) ==
    IF ~rt_api_key
    THEN RouteDecision("ollama", decision.confidence, decision.intent_type,
                       "Claude API key not set", "", "empty")
    ELSE IF rt_has_tracker /\ db_fails THEN [kind |-> "raised"]
    ELSE IF rt_has_tracker /\ ~can_afford_result.allowed
    THEN RouteDecision("ollama", decision.confidence, decision.intent_type,
                       IF can_afford_result.reason = "Daily budget exhausted"
                       THEN "Claude budget exhausted: Daily budget exhausted"
                       ELSE "Claude budget exhausted: Monthly budget exhausted",
                       "", "empty")
    ELSE decision

\* The cascade in the order it is documented: the condition of each rule.
Rules == 1..10
RuleHolds(i, text) ==
    CASE i = 1 -> text.greeting_re /\ text.words <= GreetingMaxWords
      [] i = 2 -> text.tool /= "none"
      [] i = 3 -> text.wants_claude
      [] i = 4 -> text.complex_code
      [] i = 5 -> text.analysis
      [] i = 6 -> text.planning
      [] i = 7 -> text.coding
      [] i = 8 -> text.simple_q_re /\ text.words <= SimpleWordThreshold
      [] i = 9 -> text.words > ComplexWordThreshold
      [] OTHER -> TRUE
FirstRule(text) ==
    CHOOSE i \in Rules : RuleHolds(i, text) /\ \A j \in 1..(i - 1) : ~RuleHolds(j, text)

\* classify(user_input): the cascade, the gate for a "claude" decision, then
\* _record. With the router disabled it returns before any of that; an
\* exception leaves before _record. classification_ms and _avg_ms, which
\* hold measured durations, are left out.
classify(text, builder_raises, db_fails) ==
    /\ rt_route_count < MaxRoutes
    /\ IF ~rt_enabled
       THEN /\ rt_decision' = RouteDecision("ollama", 100, "default",
                                             "Router disabled", "", "empty")
            /\ rt_cascade' = [kind |-> "none"]
            /\ rt_first' = 0
            /\ rt_later' = FALSE
            /\ UNCHANGED <<rt_route_count, rt_tier_counts>>
       ELSE LET cascade == rule_classify(text, builder_raises)
                decision == IF cascade.target = "claude"
                            THEN gate_claude(cascade, db_fails) ELSE cascade
            IN  /\ rt_decision' = decision
                /\ rt_cascade' = cascade
                /\ rt_first' = FirstRule(text)
                /\ rt_later' = \E j \in (FirstRule(text) + 1)..9 : RuleHolds(j, text)
                /\ IF decision.kind = "returned"
                   THEN /\ rt_route_count' = rt_route_count + 1
                        /\ rt_tier_counts' = [rt_tier_counts EXCEPT
                                                ![decision.target] = @ + 1]
                   ELSE UNCHANGED <<rt_route_count, rt_tier_counts>>
    /\ UNCHANGED <<rt_enabled, rt_api_key, rt_has_tracker>>
    /\ UNCHANGED <<now, cbVars, rlVars, agVars, ctVars, clVars, ptVars, piVars, phVars>>

\* IntentRouter.__init__, with the configuration it runs under.
InitRouter ==
    /\ rt_enabled \in BOOLEAN
    /\ rt_api_key \in BOOLEAN
    /\ rt_has_tracker \in BOOLEAN
    /\ rt_route_count = 0
    /\ rt_tier_counts = [t \in {"ollama", "claude", "tool_direct"} |-> 0]
    /\ rt_decision = [kind |-> "none"]
    /\ rt_cascade = [kind |-> "none"]
    /\ rt_first = 0
    /\ rt_later = FALSE

\* ============================================ JarvisAgent._process_text
\* One turn at a time (the interaction lock): the conversation loop of
\* handle_voice_interaction or the body of handle_text_input /
\* _process_text_queue around _process_text(text, source).
AgRest == <<ag_locked, ag_waiters, ag_woken, ag_queue, ag_pc, ag_kind, ag_text,
            ag_next, ag_evicted, ag_cancelled, ag_ignored, ag_raising>>
Targets == {"tool_direct", "claude", "ollama"}
CheckCall(s) == IF s = "voice" THEN "rate_limiter.check(voice)"
                ELSE "rate_limiter.check(text)"

\* One step of the turn: where it stands next, the state it shows, the
\* components it invokes and the notifications it emits.
pt_step(from, to, st, calls, events) ==
    /\ pt_pc = from
    /\ pt_pc' = to
    /\ ag_state' = st
    /\ pt_calls' = pt_calls \cup calls
    /\ pt_events' = pt_events \cup events
    /\ UNCHANGED <<now, cbVars, AgRest, ctVars, rtVars, clVars, piVars, phVars>>

\* handle_voice_interaction: _set_state(LISTENING), at the start of the
\* conversation and again after each _process_text.
voice_listen ==
    /\ pt_pc = "idle" \/ (pt_pc = "returned" /\ pt_source = "voice")
    /\ pt_pc' = "listening"
    /\ pt_source' = "voice"
    /\ ag_state' = "LISTENING"
    /\ IF pt_pc = "idle"
       THEN /\ pt_target' = "none"
            /\ pt_verdict' = "none"
            /\ pt_calls' = {}
            /\ pt_events' = {}
       ELSE UNCHANGED <<pt_target, pt_verdict, pt_calls, pt_events>>
    /\ UNCHANGED <<now, cbVars, rlVars, AgRest, ctVars, rtVars, clVars, piVars, phVars>>

\* record_and_transcribe() heard nothing: break out of the loop.
voice_silence ==
    /\ pt_step("listening", "finally", ag_state, {}, {})
    /\ UNCHANGED <<rlVars, pt_source, pt_target, pt_verdict>>

\* _process_text(text, source): await self._set_state(THINKING). Called with
\* source="voice" from the conversation loop and with the default "text"
\* from _execute_text_input.
process_text(source) ==
    /\ pt_pc = (IF source = "voice" THEN "listening" ELSE "idle")
    /\ pt_pc' = "check"
    /\ pt_source' = source
    /\ pt_target' = "none"
    /\ pt_verdict' = "none"
    /\ pt_calls' = {}
    /\ pt_events' = {}
    /\ ag_state' = "THINKING"
    /\ UNCHANGED <<now, cbVars, rlVars, AgRest, ctVars, rtVars, clVars, piVars, phVars>>

\* allowed, limit_info = self._rate_limiter.check(source)
rate_limit_check_ignored ==
    /\ pt_pc = "check"
    /\ check_update(pt_source)
    /\ pt_verdict' = check_outcome(pt_source).result.kind
    /\ pt_calls' = pt_calls \cup {CheckCall(pt_source)}
    /\ pt_pc' = "route"
    /\ UNCHANGED <<rl_limits, rl_window_secs, ag_state, pt_source, pt_target, pt_events>>
    /\ UNCHANGED <<now, cbVars, AgRest, ctVars, rtVars, clVars, piVars, phVars>>
rate_limit_check ==
    /\ pt_pc = "check"
    /\ check_update(pt_source)
    /\ pt_verdict' = check_outcome(pt_source).result.kind
    /\ pt_calls' = pt_calls \cup {CheckCall(pt_source)}
    /\ pt_pc' = CASE check_outcome(pt_source).result.kind = "accepted" -> "route"
                  [] check_outcome(pt_source).result.kind = "rejected" -> "rate_limited"
                  [] OTHER -> "except"
    /\ UNCHANGED <<rl_limits, rl_window_secs, ag_state, pt_source, pt_target, pt_events>>
    /\ UNCHANGED <<now, cbVars, AgRest, ctVars, rtVars, clVars, piVars, phVars>>

\* if not allowed: broadcast "rate_limited", append the canned reply to the
\* log, broadcast it as "response_complete", return.
rate_limited ==
    /\ pt_step("rate_limited", "returned", ag_state, {},
               {"rate_limited", "response_complete(canned)"})
    /\ UNCHANGED <<rlVars, pt_source, pt_target, pt_verdict>>

\* decision = await self._router.classify(...); broadcast "route_decision".
route(target) ==
    /\ pt_step("route", "dispatch", ag_state, {"router.classify"}, {"route_decision"})
    /\ pt_target' = target
    /\ UNCHANGED <<rlVars, pt_source, pt_verdict>>

\* Dispatch on decision.target: _handle_direct_tool sets EXECUTING and runs
\* the tool; _handle_claude_response / _handle_ollama_response stream from
\* their backend.
dispatch ==
    /\ IF pt_target = "tool_direct"
       THEN pt_step("dispatch", "tool", "EXECUTING", {"execute_tool"}, {"tool_executing"})
       ELSE pt_step("dispatch", "streamed", ag_state,
                    {IF pt_target = "claude" THEN "claude.stream_response"
                     ELSE "ollama.stream_response"}, {"response_chunk"})
    /\ UNCHANGED <<rlVars, pt_source, pt_target, pt_verdict>>

\* parse_tool_calls(full_response): either none, or _execute_tool_calls.
streamed(tool_calls) ==
    /\ IF tool_calls
       THEN pt_step("streamed", "tool", "EXECUTING", {"execute_tool"}, {"tool_executing"})
       ELSE pt_step("streamed", "complete", ag_state, {}, {})
    /\ UNCHANGED <<rlVars, pt_source, pt_target, pt_verdict>>

\* _summarize_tool_results(..., backend="ollama"): THINKING, then the summary
\* streamed from Ollama.
summarize ==
    /\ pt_step("tool", "complete", "THINKING",
               {"ollama.stream_response_from_messages"}, {"response_chunk"})
    /\ UNCHANGED <<rlVars, pt_source, pt_target, pt_verdict>>

\* broadcast "response_complete"; SPEAKING and tts.speak unless PersonaPlex
\* handles the voice.
complete(personaplex_active) ==
    /\ IF personaplex_active
       THEN pt_step("complete", "returned", ag_state, {}, {"response_complete"})
       ELSE pt_step("complete", "returned", "SPEAKING", {"tts.speak"}, {"response_complete"})
    /\ UNCHANGED <<rlVars, pt_source, pt_target, pt_verdict>>

\* The router, a backend, the tool executor or the TTS raises.
process_text_raises ==
    /\ pt_pc \in {"route", "dispatch", "streamed", "tool", "complete"}
    /\ pt_step(pt_pc, "except", ag_state, {}, {})
    /\ UNCHANGED <<rlVars, pt_source, pt_target, pt_verdict>>

\* except Exception: handle_voice_interaction and handle_text_input set
\* ERROR and broadcast "error"; _process_text_queue (a queued text) only logs.
handler_except(queued) ==
    /\ queued => pt_source = "text"
    /\ IF queued
       THEN pt_step("except", "finally", ag_state, {}, {})
       ELSE pt_step("except", "finally", "ERROR", {}, {"error"})
    /\ UNCHANGED <<rlVars, pt_source, pt_target, pt_verdict>>

\* _process_text returned to a text handler.
handler_returns ==
    /\ pt_source = "text"
    /\ pt_step("returned", "finally", ag_state, {}, {})
    /\ UNCHANGED <<rlVars, pt_source, pt_target, pt_verdict>>

\* finally: if self.state != IDLE: await self._set_state(IDLE)
handler_finally ==
    /\ pt_pc = "finally"
    /\ pt_pc' = "idle"
    /\ ag_state' = "IDLE"
    /\ pt_target' = "none"
    /\ pt_calls' = {}
    /\ pt_events' = {}
    /\ UNCHANGED <<rlVars, pt_source, pt_verdict>>
    /\ UNCHANGED <<now, cbVars, AgRest, ctVars, rtVars, clVars, piVars, phVars>>

InitTurn ==
    /\ pt_pc = "idle"
    /\ pt_source = "text"
    /\ pt_target = "none"
    /\ pt_verdict = "none"
    /\ pt_calls = {}
    /\ pt_events = {}

\* ======================================================== ClaudeLLMClient
\* What _stream_messages yields: a piece of the streamed text, or one of its
\* two canned sentences.
StreamedText == "text"
ErrorText == "I encountered an issue with the Claude backend, sir."
NoKeyText == "Claude API key not configured, sir."

\* _stream_messages up to its first yield: the request is counted;
\* _get_client() returns None without an API key.
stream_messages ==
    /\ cl_pc = "idle"
    /\ cl_request_count < MaxRequests
    /\ cl_request_count' = cl_request_count + 1
    /\ cl_yielded' = IF rt_api_key THEN <<>> ELSE <<NoKeyText>>
    /\ cl_pc' = IF rt_api_key THEN "streaming" ELSE "done"
    /\ cl_db_failed' = FALSE
    /\ UNCHANGED cl_error_count
    /\ UNCHANGED <<now, cbVars, rlVars, agVars, ctVars, rtVars, ptVars, piVars, phVars>>

\* async for text in stream.text_stream: yield text
stream_text ==
    /\ cl_pc = "streaming"
    /\ Len(cl_yielded) < MaxTokens
    /\ cl_yielded' = Append(cl_yielded, StreamedText)
    /\ UNCHANGED <<cl_pc, cl_request_count, cl_error_count, cl_db_failed>>
    /\ UNCHANGED <<now, cbVars, rlVars, agVars, ctVars, rtVars, ptVars, piVars, phVars>>

\* The API raises while streaming: except Exception counts the error and
\* yields the error sentence.
stream_raises ==
    /\ cl_pc = "streaming"
    /\ cl_error_count' = cl_error_count + 1
    /\ cl_yielded' = Append(cl_yielded, ErrorText)
    /\ cl_pc' = "done"
    /\ UNCHANGED <<cl_request_count, cl_db_failed>>
    /\ UNCHANGED <<now, cbVars, rlVars, agVars, ctVars, rtVars, ptVars, piVars, phVars>>

\* The text stream is exhausted: get_final_message(), then log_usage(...) when
\* there is a tracker, inside the try block; self._error_count = 0 after it.
stream_final(cost, db_fails) ==
    /\ cl_pc = "streaming"
    /\ (rt_has_tracker /\ ~db_fails) => Len(ct_ledger) < MaxRecords
    /\ LET logged == IF rt_has_tracker THEN log_usage_result(cost, db_fails)
                     ELSE [kind |-> "skipped", ledger |-> ct_ledger]
       IN /\ ct_ledger' = logged.ledger
          /\ cl_db_failed' = (logged.kind = "raised")
          /\ IF logged.kind = "raised"
             THEN /\ cl_error_count' = cl_error_count + 1
                  /\ cl_yielded' = Append(cl_yielded, ErrorText)
             ELSE /\ cl_error_count' = 0
                  /\ UNCHANGED cl_yielded
    /\ cl_pc' = "done"
    /\ UNCHANGED cl_request_count
    /\ UNCHANGED <<ct_daily_limit, ct_monthly_limit, ct_today, ct_verdict, ct_refused>>
    /\ UNCHANGED <<now, cbVars, rlVars, agVars, rtVars, ptVars, piVars, phVars>>

\* The consumer has taken everything: the generator is finished.
stream_closed ==
    /\ cl_pc = "done"
    /\ cl_pc' = "idle"
    /\ UNCHANGED <<cl_yielded, cl_request_count, cl_error_count, cl_db_failed>>
    /\ UNCHANGED <<now, cbVars, rlVars, agVars, ctVars, rtVars, ptVars, piVars, phVars>>

\* ClaudeLLMClient.__init__
InitClaude ==
    /\ cl_pc = "idle"
    /\ cl_yielded = <<>>
    /\ cl_request_count = 0
    /\ cl_error_count = 0
    /\ cl_db_failed = FALSE

\* ================================================================ PiClient
\* What one transport attempt (_execute_ssh / _execute_gateway) gives back: a
\* PiResult, or an exception (_ensure_tunnel is outside the transport's try).
TransportOutcomes ==
    {[kind |-> "result", ok |-> TRUE, error_code |-> "", stderr |-> <<>>],
     [kind |-> "result", ok |-> TRUE, error_code |-> "parse_error", stderr |-> <<>>],
     [kind |-> "result", ok |-> FALSE, error_code |-> "tool_error",
      stderr |-> <<"invalid pin">>],
     [kind |-> "result", ok |-> FALSE, error_code |-> "unreachable",
      stderr |-> <<"SSH connection failed">>],
     [kind |-> "result", ok |-> FALSE, error_code |-> "timeout",
      stderr |-> <<"SSH timeout">>],
     [kind |-> "raised", ok |-> FALSE, error_code |-> "", stderr |-> <<"OSError">>]}

\* PiResult.error(task_id, f"All retries failed: {last_error}", "unreachable")
AllRetriesFailed(last_error) ==
    [kind |-> "result", ok |-> FALSE, error_code |-> "unreachable",
     stderr |-> <<"All retries failed: ">> \o last_error]

\* if result.ok or result.error_code == "tool_error": return result
returns_now_ok_only(result) == result.ok
returns_now(result) == result.ok \/ result.error_code = "tool_error"

\* _log_to_ledger(task, result): INSERT OR REPLACE of the task's row; a write
\* failure is logged and swallowed.
log_to_ledger(result, ledger_fails) == IF ledger_fails THEN pi_ledger ELSE result

\* execute(task): last_error = None; for attempt in range(self.max_retries + 1)
execute ==
    /\ pi_pc = "idle"
    /\ pi_attempt' = 0
    /\ pi_history' = <<>>
    /\ pi_last_error' = <<"None">>
    /\ pi_waits' = <<>>
    /\ pi_ledger' = [kind |-> "none"]
    /\ pi_result' = [kind |-> "none"]
    /\ pi_pc' = IF 0 < pi_max_retries + 1 THEN "attempt" ELSE "exhausted"
    /\ UNCHANGED pi_max_retries
    /\ UNCHANGED <<now, cbVars, rlVars, agVars, ctVars, rtVars, clVars, ptVars, phVars>>

\* One pass of the loop body, up to `return result` or to the backoff sleep.
transport_done(outcome, ledger_fails) ==
    /\ pi_pc = "attempt"
    /\ pi_history' = Append(pi_history, outcome)
    /\ IF outcome.kind = "result"
       THEN /\ pi_ledger' = log_to_ledger(outcome, ledger_fails)
            /\ IF returns_now(outcome)
               THEN /\ pi_result' = outcome
                    /\ pi_pc' = "returned"
                    /\ UNCHANGED pi_last_error
               ELSE /\ pi_last_error' = outcome.stderr
                    /\ pi_pc' = IF pi_attempt < pi_max_retries THEN "backoff"
                                ELSE "exhausted"
                    /\ UNCHANGED pi_result
       ELSE /\ pi_last_error' = outcome.stderr
            /\ pi_pc' = IF pi_attempt < pi_max_retries THEN "backoff"
                        ELSE "exhausted"
            /\ UNCHANGED <<pi_ledger, pi_result>>
    /\ UNCHANGED <<pi_max_retries, pi_attempt, pi_waits>>
    /\ UNCHANGED <<now, cbVars, rlVars, agVars, ctVars, rtVars, clVars, ptVars, phVars>>

\* wait = (attempt + 1) * 2; await asyncio.sleep(wait); the next pass.
backoff_slept ==
    /\ pi_pc = "backoff"
    /\ pi_waits' = Append(pi_waits, (pi_attempt + 1) * 2)
    /\ pi_attempt' = pi_attempt + 1
    /\ pi_pc' = "attempt"
    /\ UNCHANGED <<pi_max_retries, pi_history, pi_last_error, pi_ledger, pi_result>>
    /\ UNCHANGED <<now, cbVars, rlVars, agVars, ctVars, rtVars, clVars, ptVars, phVars>>

\* After the loop: the "unreachable" result is logged and returned.
all_failed(ledger_fails) ==
    /\ pi_pc = "exhausted"
    /\ pi_result' = AllRetriesFailed(pi_last_error)
    /\ pi_ledger' = log_to_ledger(AllRetriesFailed(pi_last_error), ledger_fails)
    /\ pi_pc' = "returned"
    /\ UNCHANGED <<pi_max_retries, pi_attempt, pi_history, pi_last_error, pi_waits>>
    /\ UNCHANGED <<now, cbVars, rlVars, agVars, ctVars, rtVars, clVars, ptVars, phVars>>

\* The caller has the result; the client is free for the next task.
execute_returned ==
    /\ pi_pc = "returned"
    /\ pi_pc' = "idle"
    /\ UNCHANGED <<pi_max_retries, pi_attempt, pi_history, pi_last_error,
                   pi_waits, pi_ledger, pi_result>>
    /\ UNCHANGED <<now, cbVars, rlVars, agVars, ctVars, rtVars, clVars, ptVars, phVars>>

\* PiClient.__init__ with the configured max_retries.
InitPiClient ==
    /\ pi_max_retries \in 0..MaxRetries
    /\ pi_pc = "idle"
    /\ pi_attempt = 0
    /\ pi_history = <<>>
    /\ pi_last_error = <<"None">>
    /\ pi_waits = <<>>
    /\ pi_ledger = [kind |-> "none"]
    /\ pi_result = [kind |-> "none"]

\* ========================================================= PiHealthMonitor
MaxQueueSize == 20
Outcomes == {"ok", "failed", "raised"}
ExecutedIds == [i \in 1..Len(ph_executed) |-> ph_executed[i].action]
InQueue(a) == \E i \in 1..Len(ph_offline_queue) : ph_offline_queue[i] = a
Executed(a) == \E i \in 1..Len(ph_executed) : ph_executed[i].action = a

\* The Pi becomes unreachable, or reachable again.
pi_link(up) ==
    /\ ph_reachable /= up
    /\ ph_reachable' = up
    /\ UNCHANGED <<ph_is_online, ph_offline_queue, ph_pc, ph_was_online,
                   ph_batch, ph_executed, ph_next, ph_before>>
    /\ UNCHANGED <<now, cbVars, rlVars, agVars, ctVars, rtVars, clVars, ptVars, piVars>>

\* queue_action(task_name, args): refused when the queue is full.
queue_action ==
    /\ ph_next <= MaxActions
    /\ ph_next' = ph_next + 1
    /\ ph_offline_queue' = IF Len(ph_offline_queue) >= MaxQueueSize
                           THEN ph_offline_queue
                           ELSE Append(ph_offline_queue, ph_next)
    /\ UNCHANGED <<ph_reachable, ph_is_online, ph_pc, ph_was_online, ph_batch,
                   ph_executed, ph_before>>
    /\ UNCHANGED <<now, cbVars, rlVars, agVars, ctVars, rtVars, clVars, ptVars, piVars>>

\* _health_loop: the sleep is over; _check_health: was_online = self._is_online
\* and the ping is sent.
check_health ==
    /\ ph_pc = "sleep"
    /\ ph_was_online' = ph_is_online
    /\ ph_pc' = "ping"
    /\ UNCHANGED <<ph_reachable, ph_is_online, ph_offline_queue, ph_batch,
                   ph_executed, ph_next, ph_before>>
    /\ UNCHANGED <<now, cbVars, rlVars, agVars, ctVars, rtVars, clVars, ptVars, piVars>>

\* The ping returned or raised: self._is_online is set, and a change of it
\* is broadcast.
ping_done(outcome) ==
    /\ ph_pc = "ping"
    /\ (outcome = "ok") = ph_reachable
    /\ ph_is_online' = (outcome = "ok")
    /\ ph_pc' = IF ~ph_was_online /\ outcome = "ok" THEN "online"
                ELSE IF ph_was_online /\ outcome /= "ok" THEN "offline"
                ELSE "sleep"
    /\ ph_before' = IF ~ph_was_online /\ outcome = "ok" THEN ph_offline_queue
                    ELSE ph_before
    /\ UNCHANGED <<ph_reachable, ph_offline_queue, ph_was_online, ph_batch,
                   ph_executed, ph_next>>
    /\ UNCHANGED <<now, cbVars, rlVars, agVars, ctVars, rtVars, clVars, ptVars, piVars>>

\* _drain_queue: queue = self._offline_queue.copy(); self._offline_queue.clear()
drain_copy_keeps(queue) == [batch |-> queue, queue |-> queue]
drain_copy(queue) == [batch |-> queue, queue |-> <<>>]

\* _broadcast_status returned (an exception of the broadcast is swallowed);
\* after "online", _drain_queue starts.
status_broadcast(raises) ==
    /\ ph_pc \in {"online", "offline"}
    /\ IF ph_pc = "online" /\ ph_offline_queue /= <<>>
       THEN /\ ph_batch' = drain_copy(ph_offline_queue).batch
            /\ ph_offline_queue' = drain_copy(ph_offline_queue).queue
            /\ ph_pc' = "drain"
       ELSE /\ ph_pc' = "sleep"
            /\ UNCHANGED <<ph_batch, ph_offline_queue>>
    /\ UNCHANGED <<ph_reachable, ph_is_online, ph_was_online, ph_executed,
                   ph_next, ph_before>>
    /\ UNCHANGED <<now, cbVars, rlVars, agVars, ctVars, rtVars, clVars, ptVars, piVars>>

\* _drain_queue: pi_client.execute(task) for the next action of the copy
\* returned (ok or not) or raised; the loop goes on.
action_executed(outcome) ==
    /\ ph_pc = "drain"
    /\ ph_executed' = Append(ph_executed, [action |-> Head(ph_batch), outcome |-> outcome])
    /\ ph_batch' = Tail(ph_batch)
    /\ ph_pc' = IF Tail(ph_batch) = <<>> THEN "sleep" ELSE "drain"
    /\ UNCHANGED <<ph_reachable, ph_is_online, ph_offline_queue, ph_was_online,
                   ph_next, ph_before>>
    /\ UNCHANGED <<now, cbVars, rlVars, agVars, ctVars, rtVars, clVars, ptVars, piVars>>

\* PiHealthMonitor.__init__ and start(), the Pi reachable or not.
InitPiHealth ==
    /\ ph_reachable \in BOOLEAN
    /\ ph_is_online = FALSE
    /\ ph_offline_queue = <<>>
    /\ ph_pc = "sleep"
    /\ ph_was_online = FALSE
    /\ ph_batch = <<>>
    /\ ph_executed = <<>>
    /\ ph_next = 1
    /\ ph_before = <<>>

\* ========================================================= specifications
\* A component that a specification does not exercise stays as constructed
\* with one fixed configuration.
BreakerFixed == InitBreaker /\ cb_threshold = MaxThreshold /\ cb_cooldown = MaxCooldown
LimiterFixed ==
    /\ InitLimiter
    /\ rl_limits["voice"] = MaxLimit

\* The tracker with the largest daily ceiling and the router enabled, with a
\* credential and with the tracker.
CostFixed == InitCost /\ ct_daily_limit = MaxDailyLimit * UnitsPerRound
RouterFixed == InitRouter /\ rt_enabled /\ rt_api_key /\ rt_has_tracker

PiFixed == InitPiClient /\ pi_max_retries = MaxRetries
HealthFixed == InitPiHealth /\ ~ph_reachable
TurnFixed == InitClaude /\ InitTurn

InitB ==
    /\ now = 0
    /\ InitBreaker
    /\ LimiterFixed
    /\ InitAgent
    /\ CostFixed
    /\ RouterFixed
    /\ InitClaude
    /\ InitTurn
    /\ PiFixed
    /\ HealthFixed

InitL ==
    /\ now = 0
    /\ BreakerFixed
    /\ InitLimiter
    /\ InitAgent
    /\ CostFixed
    /\ RouterFixed
    /\ InitClaude
    /\ InitTurn
    /\ PiFixed
    /\ HealthFixed

InitA ==
    /\ now = 0
    /\ BreakerFixed
    /\ LimiterFixed
    /\ InitAgent
    /\ CostFixed
    /\ RouterFixed
    /\ InitClaude
    /\ InitTurn
    /\ PiFixed
    /\ HealthFixed

InitC ==
    /\ now = 0
    /\ BreakerFixed
    /\ LimiterFixed
    /\ InitAgent
    /\ InitCost
    /\ RouterFixed
    /\ InitClaude
    /\ InitTurn
    /\ PiFixed
    /\ HealthFixed

\* The router starts over a ledger kept from earlier runs: either empty or
\* holding one record of today that meets the daily ceiling.
InitR ==
    /\ now = 0
    /\ BreakerFixed
    /\ LimiterFixed
    /\ InitAgent
    /\ ct_daily_limit = MaxDailyLimit * UnitsPerRound
    /\ ct_monthly_limit = MaxMonthlyLimit * UnitsPerRound
    /\ ct_today = <<1, 1>>
    /\ ct_ledger \in {<<>>, <<[timestamp |-> <<1, 1, 0>>, cost_usd |-> ct_daily_limit]>>}
    /\ ct_verdict = [kind |-> "none"]
    /\ ct_refused = FALSE
    /\ InitRouter
    /\ InitClaude
    /\ InitTurn
    /\ PiFixed
    /\ HealthFixed

\* The client with or without an API key, with or without the tracker.
InitK ==
    /\ now = 0
    /\ BreakerFixed
    /\ LimiterFixed
    /\ InitAgent
    /\ CostFixed
    /\ InitRouter /\ rt_enabled
    /\ InitClaude
    /\ InitTurn
    /\ PiFixed
    /\ HealthFixed

\* Turns under every configuration of the limiter.
InitT ==
    /\ now = 0
    /\ BreakerFixed
    /\ InitLimiter
    /\ InitAgent
    /\ CostFixed
    /\ RouterFixed
    /\ InitClaude
    /\ InitTurn
    /\ PiFixed
    /\ HealthFixed

NextCalls ==
    \/ Tick /\ UNCHANGED <<cbVars, rlVars, agVars, ctVars, rtVars, clVars, ptVars, piVars, phVars>>
    \/ \E p \in Callers : call(p)
    \/ \E p \in Callers : call_returns(p)
    \/ \E p \in Callers : call_raises(p)

NextBreaker ==
    \/ Tick /\ UNCHANGED <<cbVars, rlVars, agVars, ctVars, rtVars, clVars, ptVars, piVars, phVars>>
    \/ \E p \in Callers : call(p)
    \/ \E p \in Callers : call_returns(p)
    \/ \E p \in Callers : call_raises(p)
    \/ CircuitBreaker_reset

NextLimiter ==
    \/ Tick /\ UNCHANGED <<cbVars, rlVars, agVars, ctVars, rtVars, clVars, ptVars, piVars, phVars>>
    \/ \E s \in Sources : check(s)
    \/ \E s \in Sources : SlidingWindowRateLimiter_reset(s)
    \/ SlidingWindowRateLimiter_reset_all

\* The client under every configured max_retries.
InitP ==
    /\ now = 0
    /\ BreakerFixed
    /\ LimiterFixed
    /\ InitAgent
    /\ CostFixed
    /\ RouterFixed
    /\ TurnFixed
    /\ InitPiClient
    /\ HealthFixed

InitH ==
    /\ now = 0
    /\ BreakerFixed
    /\ LimiterFixed
    /\ InitAgent
    /\ CostFixed
    /\ RouterFixed
    /\ TurnFixed
    /\ PiFixed
    /\ InitPiHealth

NextPiClient ==
    \/ execute
    \/ \E outcome \in TransportOutcomes : \E ledger_fails \in BOOLEAN :
            transport_done(outcome, ledger_fails)
    \/ backoff_slept
    \/ \E ledger_fails \in BOOLEAN : all_failed(ledger_fails)
    \/ execute_returned

NextPiHealth ==
    \/ \E up \in BOOLEAN : pi_link(up)
    \/ queue_action
    \/ check_health
    \/ \E outcome \in Outcomes : ping_done(outcome)
    \/ \E raises \in BOOLEAN : status_broadcast(raises)
    \/ \E outcome \in Outcomes : action_executed(outcome)

\* The health loop keeps running: its sleeps end and what it awaits returns.
FairHealth ==
    /\ WF_vars(check_health)
    /\ WF_vars(\E outcome \in Outcomes : ping_done(outcome))
    /\ WF_vars(\E raises \in BOOLEAN : status_broadcast(raises))
    /\ WF_vars(\E outcome \in Outcomes : action_executed(outcome))

NextChecks ==
    \/ Tick /\ UNCHANGED <<cbVars, rlVars, agVars, ctVars, rtVars, clVars, ptVars, piVars, phVars>>
    \/ \E s \in Sources : check(s)

NextAgent ==
    \/ \E t \in Handlers : handle_text_input(t)
    \/ \E t \in Handlers : input_queued(t)
    \/ \E t \in Handlers : handle_voice_interaction(t)
    \/ \E x \in Tasks : lock_granted(x)
    \/ drain_get
    \/ \E x \in Tasks : turn(x)
    \/ \E x \in Tasks : turn_raises(x)
    \/ \E x \in Tasks : turn_except(x)
    \/ \E x \in Tasks : turn_finally(x)
    \/ \E x \in Tasks : turn_release(x)

NextAgentCancel ==
    \/ NextAgent
    \/ \E x \in Tasks : cancel(x)

NextAgentSink ==
    \/ NextAgent
    \/ \E x \in Tasks : sink_raises(x)
    \/ \E t \in Handlers : task_exception(t)
    \/ drain_slept

NextClaude ==
    \/ stream_messages
    \/ stream_text
    \/ stream_raises
    \/ \E cost \in Costs : \E db_fails \in BOOLEAN : stream_final(cost, db_fails)
    \/ stream_closed

NextTurn ==
    \/ Tick /\ UNCHANGED <<cbVars, rlVars, agVars, ctVars, rtVars, clVars, ptVars, piVars, phVars>>
    \/ voice_listen
    \/ voice_silence
    \/ \E source \in Sources : process_text(source)
    \/ rate_limit_check
    \/ rate_limited
    \/ \E target \in Targets : route(target)
    \/ dispatch
    \/ \E tool_calls \in BOOLEAN : streamed(tool_calls)
    \/ summarize
    \/ \E personaplex_active \in BOOLEAN : complete(personaplex_active)
    \/ process_text_raises
    \/ \E queued \in BOOLEAN : handler_except(queued)
    \/ handler_returns
    \/ handler_finally

NextCost ==
    \/ midnight
    \/ \E cost \in Costs : log_usage(cost)
    \/ \E db_fails \in BOOLEAN : can_afford(db_fails)

NextRouter ==
    \E text \in Texts :
        \E builder_raises \in (IF text.tool = "none" THEN {FALSE} ELSE BOOLEAN) :
            \E db_fails \in (IF rule_classify(text, builder_raises).target = "claude"
                                 /\ rt_api_key /\ rt_has_tracker
                              THEN BOOLEAN ELSE {FALSE}) :
                classify(text, builder_raises, db_fails)

\* Concurrent call()s and reset() on one breaker.
SpecBreaker == InitB /\ [][NextBreaker]_vars
\* Concurrent call()s on one breaker, nobody calling reset().
SpecBreakerCalls == InitB /\ [][NextCalls]_vars
\* check() and reset() on a configured limiter as time passes.
SpecLimiter == InitL /\ [][NextLimiter]_vars
\* check() on a configured limiter as time passes, nobody calling reset().
SpecLimiterChecks == InitL /\ [][NextChecks]_vars
\* Text submissions and voice triggers arriving as tasks on the event loop,
\* with the drain task running.
SpecAgent == InitA /\ [][NextAgent]_vars
\* The same, with tasks cancelled while they run a turn.
SpecAgentCancel == InitA /\ [][NextAgentCancel]_vars
\* The same as SpecAgent, with a broadcast callback that may raise.
SpecAgentSink == InitA /\ [][NextAgentSink]_vars
\* Requests streamed from the Claude API, with usage logging that may fail.
SpecClaude == InitK /\ [][NextClaude]_vars
\* Turns run one after the other through _process_text as time passes.
SpecTurn == InitT /\ [][NextTurn]_vars
\* The event loop runs every task that is ready, so no step of a task that
\* stays possible is put off forever; every turn terminates: a voice
\* conversation always ends with a silence.
voice_ends(t) == IsVoice(t) /\ turn_step(t, "listening", "finally", ag_state)
FairAgent ==
    /\ WF_vars(drain_get)
    /\ \A x \in Tasks :
        /\ WF_vars(lock_granted(x))
        /\ WF_vars(turn(x))
        /\ WF_vars(turn_except(x))
        /\ WF_vars(turn_finally(x))
        /\ WF_vars(turn_release(x))
    /\ \A t \in Handlers :
        /\ WF_vars(input_queued(t))
        /\ SF_vars(voice_ends(t))
SpecAgentLive == InitA /\ [][NextAgent]_vars /\ FairAgent
\* Tasks executed one after the other through PiClient.execute.
SpecPiClient == InitP /\ [][NextPiClient]_vars
\* The health loop running while actions are queued and the Pi comes and goes.
SpecPiHealth == InitH /\ [][NextPiHealth]_vars /\ FairHealth
\* Usage logged and the budget asked for as the days pass.
SpecCost == InitC /\ [][NextCost]_vars
\* classify() called on texts of every shape, under every configuration.
SpecRouter == InitR /\ [][NextRouter]_vars

\* -------------------------------------------------------- PiClient: claims
\* A result that ends execute(): ok, or a tool error.
Final(o) == o.kind = "result" /\ (o.ok \/ o.error_code = "tool_error")

\* C32: execute makes at most max_retries + 1 transport attempts for a task;
\* it returns the first attempt's result that is ok or has error_code
\* "tool_error" without any further attempt, retries after every other failed
\* attempt, and when all attempts fail returns a not-ok result with error_code
\* "unreachable" whose stderr contains "All retries failed".
C32_BoundedRetries ==
    /\ Len(pi_history) <= pi_max_retries + 1
    /\ \A i \in 1..(Len(pi_history) - 1) : ~Final(pi_history[i])
    /\ pi_pc = "returned" =>
        IF pi_history /= <<>> /\ Final(pi_history[Len(pi_history)])
        THEN pi_result = pi_history[Len(pi_history)]
        ELSE /\ Len(pi_history) = pi_max_retries + 1
             /\ ~pi_result.ok
             /\ pi_result.error_code = "unreachable"
             /\ Head(pi_result.stderr) = "All retries failed: "
C32_Witness ==
    /\ pi_pc = "returned"
    /\ pi_max_retries = MaxRetries
    /\ Len(pi_history) = MaxRetries + 1
    /\ pi_history[1].kind = "raised"
    /\ pi_history[MaxRetries + 1].error_code = "timeout"
    /\ pi_result.error_code = "unreachable"
    /\ Len(pi_waits) = MaxRetries

\* ------------------------------------------------- PiHealthMonitor: claims
\* The health check that observed an offline -> online transition ends.
ReconnectCheckEnds == ph_pc \in {"online", "drain"} /\ ph_pc' = "sleep"
\* Every action queued before the transition has been executed exactly once,
\* in the order it was queued.
BeforeExecutedInOrder ==
    SelectSeq(ExecutedIds, LAMBDA a : \E i \in 1..Len(ph_before) : ph_before[i] = a)
        = ph_before

\* The offline queue holds no action queued before the transition and no
\* executed action.
QueueHoldsOnlyLater ==
    \A i \in 1..Len(ph_offline_queue) :
        /\ \A j \in 1..Len(ph_before) : ph_offline_queue[i] /= ph_before[j]
        /\ ~Executed(ph_offline_queue[i])

C40_AcceptedEventuallyExecuted ==
    \A a \in 1..MaxActions :
        InQueue(a) ~> (Executed(a) \/ ~ph_reachable)

\* ------------------------------------------------ CircuitBreaker: claims
Edges == {<<"CLOSED", "OPEN">>, <<"OPEN", "HALF_OPEN">>,
          <<"HALF_OPEN", "CLOSED">>, <<"HALF_OPEN", "OPEN">>}
Probes == {p \in Callers : cb_pc[p] = "running" /\ cb_admit[p] = "HALF_OPEN"}
InCooldown == cb_state = "OPEN" /\ now - cb_last_failure_time < cb_cooldown

\* C3: starting from CLOSED with failure count 0, failure_threshold failing
\* calls with no success in between leave the breaker OPEN with failure count
\* equal to failure_threshold; any smaller number of failures leaves it CLOSED.
C3_ThresholdFailuresOpen ==
    cb_streak >= 0 =>
        /\ cb_streak < cb_threshold => cb_state = "CLOSED" /\ cb_failures = cb_streak
        /\ cb_streak = cb_threshold => cb_state = "OPEN" /\ cb_failures = cb_threshold
C3_Witness ==
    /\ cb_threshold = MaxThreshold
    /\ cb_streak = cb_threshold
    /\ cb_state = "OPEN"

\* C4: while the breaker is OPEN and less than cooldown_sec has elapsed since
\* the last recorded failure, a call() raises CircuitOpenError without invoking
\* the wrapped function and leaves the state and the failure count unchanged.
C4_FastFailWhileOpen ==
    [][\A p \in Callers :
        (call(p) /\ InCooldown) =>
            /\ cb_result'[p] = "CircuitOpenError"
            /\ cb_pc'[p] = "idle"
            /\ cb_state' = cb_state
            /\ cb_failures' = cb_failures]_vars
C4_Witness ==
    /\ InCooldown
    /\ \E p \in Callers : cb_result[p] = "CircuitOpenError" /\ cb_pc[p] = "idle"

\* C5: when the breaker is OPEN and at least cooldown_sec has elapsed since the
\* last recorded failure, an attempted call() moves it to HALF_OPEN and is
\* admitted (the wrapped function runs); OPEN -> HALF_OPEN happens only after
\* the cooldown and only in a step that admits a call.
C5_ProbeAfterCooldown ==
    [][/\ \A p \in Callers :
            (call(p) /\ cb_state = "OPEN"
                /\ now - cb_last_failure_time >= cb_cooldown) =>
                (cb_state' = "HALF_OPEN" /\ cb_pc'[p] = "running")
       /\ (cb_state = "OPEN" /\ cb_state' = "HALF_OPEN") =>
            /\ now - cb_last_failure_time >= cb_cooldown
            /\ \E p \in Callers : cb_pc[p] = "idle" /\ cb_pc'[p] = "running"]_vars
C5_Witness ==
    /\ cb_state = "HALF_OPEN"
    /\ cb_last_state_change - cb_last_failure_time = cb_cooldown
    /\ Probes /= {}

\* C6: a probe admitted after the cooldown has one of two outcomes: if the
\* wrapped function succeeds the breaker becomes CLOSED with failure count 0;
\* if it fails the breaker returns to OPEN and the cooldown clock restarts at
\* the time of that failure.
C6_ProbeOutcome ==
    [][\A p \in Probes :
        /\ call_returns(p) => (cb_state' = "CLOSED" /\ cb_failures' = 0)
        /\ call_raises(p) =>
            (cb_state' = "OPEN" /\ cb_last_failure_time' = now)]_vars

\* C7: in HALF_OPEN exactly one probe is admitted: while a probe is in flight
\* no other call() reaches the wrapped function as a probe.
C7_SingleProbe == Cardinality(Probes) <= 1

\* C8: the breaker's state changes only along CLOSED -> OPEN, OPEN -> HALF_OPEN,
\* HALF_OPEN -> CLOSED and HALF_OPEN -> OPEN; the only other state change is
\* reset(), which from any state forces CLOSED with failure count 0.
C8_Transitions ==
    [][/\ cb_state' /= cb_state =>
            \/ <<cb_state, cb_state'>> \in Edges
            \/ CircuitBreaker_reset
       /\ CircuitBreaker_reset => (cb_state' = "CLOSED" /\ cb_failures' = 0)]_vars
C8_Witness ==
    /\ cb_state = "CLOSED"
    /\ cb_last_state_change > cb_last_failure_time
    /\ cb_last_failure_time > 0
    /\ cb_failures = 0

\* C31: in CLOSED each failed call increments the failure count by exactly 1
\* and each successful call decrements it by 1 unless it is already 0; the
\* failure count is never negative.
C31_CountsInClosed ==
    /\ [](cb_failures >= 0)
    /\ [][\A p \in Callers :
            cb_state = "CLOSED" =>
                /\ call_raises(p) => cb_failures' = cb_failures + 1
                /\ call_returns(p) =>
                      cb_failures' = IF cb_failures = 0 THEN 0
                                     ELSE cb_failures - 1]_vars
C31_Witness ==
    /\ cb_state = "CLOSED"
    /\ cb_threshold = MaxThreshold
    /\ cb_failures = 1
    /\ cb_streak = -1
    /\ \E p \in Callers : cb_result[p] = "returned"
    /\ \E p \in Callers : cb_result[p] = "raised"

\* C34: under any interleaving of concurrent call()s and reset() calls on a
\* breaker with failure_threshold >= 1, whenever the breaker is CLOSED its
\* failure count is strictly below failure_threshold.
C34_ClosedBelowThreshold ==
    cb_state = "CLOSED" => cb_failures < cb_threshold
C34_Witness ==
    /\ cb_state = "CLOSED"
    /\ cb_threshold = MaxThreshold
    /\ cb_failures = cb_threshold - 1
    /\ cb_last_state_change > 0
    /\ \A p \in Callers : cb_pc[p] = "running"

\* C35: once the breaker is OPEN, the outcome of a call admitted before it
\* opened changes neither the state nor the failure count nor the cooldown
\* clock.
C35_LateOutcomeChangesNothing ==
    [][\A p \in Callers :
        (cb_state = "OPEN" /\ (call_returns(p) \/ call_raises(p))) =>
            UNCHANGED <<cb_state, cb_failures, cb_last_failure_time>>]_vars

\* ---------------------------------------- SlidingWindowRateLimiter: claims
\* C9: for a source with limit L >= 1 whose window is empty, L consecutive
\* check() calls made within one window duration return allowed=true with
\* remaining L-1, L-2, ..., 0 in that order, and the next check() made within
\* the same window returns allowed=false with remaining 0.
C9_BurstWithinLimit ==
    [][\A s \in Sources :
        (check(s) /\ LimitOf(s) >= 1
            /\ now - rl_burst'[s].t0 <= WindowOf(s)) =>
            /\ rl_burst'[s].n <= LimitOf(s) =>
                /\ rl_result'.kind = "accepted"
                /\ rl_result'.allowed
                /\ rl_result'.remaining = LimitOf(s) - rl_burst'[s].n
            /\ rl_burst'[s].n = LimitOf(s) + 1 =>
                /\ rl_result'.kind = "rejected"
                /\ ~rl_result'.allowed
                /\ rl_result'.remaining = 0]_vars
C9_Witness ==
    /\ rl_result.kind = "rejected"
    /\ LimitOf(rl_result.source) = MaxLimit
    /\ rl_burst[rl_result.source].n = MaxLimit + 1
    /\ rl_burst[rl_result.source].t0 < now
    /\ now - rl_burst[rl_result.source].t0 <= WindowOf(rl_result.source)

\* C10 (as claimed): every check() that returns allowed=false reports a
\* retry_after strictly greater than 0.
C10_RetryAfterPositive ==
    rl_result.kind = "rejected" => rl_result.retry_after > 0

\* C10 (amended): every check() that returns allowed=false reports a
\* retry_after >= 0; it is strictly greater than 0 whenever the time left
\* until the oldest remaining timestamp leaves the window is more than 0.05 s
\* (half of the 0.1 s the value is rounded to).
C10_RetryAfterRounded ==
    [][\A s \in Sources :
        (check(s) /\ rl_result'.kind = "rejected") =>
            LET left == (rl_windows'[s][1] + WindowOf(s)) - now IN
            /\ rl_result'.retry_after >= 0
            /\ 2 * left > TicksPerTenth => rl_result'.retry_after > 0]_vars
C10_Witness ==
    /\ rl_result.kind = "rejected"
    /\ rl_result.retry_after > 0
    /\ rl_windows[rl_result.source][1] < now

\* C11: a rejected source becomes admissible again by the passage of time
\* alone: once time has advanced past window_duration after the oldest recorded
\* timestamp, the next check() for that source returns allowed=true; a rejected
\* check() records nothing (the window it leaves is what remains of the old
\* one), so rejected checks made in between do not postpone re-admission.
WindowAt(s) == IF s \in DOMAIN rl_windows THEN rl_windows[s] ELSE <<>>
C11_ReadmittedAfterWindow ==
    [][\A s \in Sources :
        check(s) =>
            /\ (WindowAt(s) /= <<>> /\ now > WindowAt(s)[1] + WindowOf(s)) =>
                    (rl_result'.kind = "accepted" /\ rl_result'.allowed)
            /\ rl_result'.kind = "rejected" =>
                    \E k \in 1..Len(WindowAt(s)) :
                        rl_windows'[s] = SubSeq(WindowAt(s), k, Len(WindowAt(s)))]_vars
C11_Witness ==
    /\ rl_result.kind = "accepted"
    /\ rl_rejected[rl_result.source] = 2
    /\ LimitOf(rl_result.source) = MaxLimit
    /\ rl_windows[rl_result.source] = <<now>>

\* C12: for a source with fixed limit and window, the count that check()
\* compares with the limit never includes a timestamp older than
\* now - window_duration, and immediately after an accepted check the window
\* holds at most limit timestamps.
C12_WindowPruned ==
    [][\A s \in Sources :
        check(s) =>
            /\ \A i \in 1..Len(rl_windows'[s]) :
                    rl_windows'[s][i] >= now - WindowOf(s)
            /\ rl_result'.kind = "accepted" =>
                    Len(rl_windows'[s]) <= LimitOf(s)]_vars
C12_Witness ==
    /\ rl_result.kind = "accepted"
    /\ rl_rejected[rl_result.source] = 2
    /\ Len(rl_windows[rl_result.source]) = MaxLimit
    /\ LimitOf(rl_result.source) = MaxLimit
    /\ rl_windows[rl_result.source][1] = now - WindowOf(rl_result.source)

\* C13: check(source) always returns an (allowed, info) pair and never raises,
\* for every source and every configured limit >= 0, including limit 0 on a
\* source whose window is empty.
C13_CheckNeverRaises ==
    rl_result.kind \in {"none", "accepted", "rejected"}

\* C38: for a source with fixed limit and window (no reset, no
\* reconfiguration), every time interval of one window duration holds at most
\* `limit` accepted check() calls of that source.
C38_AtMostLimitPerWindow ==
    \A s \in Sources :
        \A i \in 1..Len(rl_accepted[s]) :
            Cardinality({j \in 1..Len(rl_accepted[s]) :
                            /\ rl_accepted[s][j] >= rl_accepted[s][i]
                            /\ rl_accepted[s][j] <= rl_accepted[s][i] + WindowOf(s)})
                <= LimitOf(s)
C38_Witness ==
    /\ rl_limits["voice"] = MaxLimit
    /\ Len(rl_accepted["voice"]) = MaxLimit
    /\ rl_accepted["voice"][1] < rl_accepted["voice"][MaxLimit]
    /\ rl_result.kind = "rejected"
    /\ rl_result.source = "voice"
    /\ rl_rejected["text"] = 2

\* C14: sources are independent: check(a) and reset(a) never change the window
\* or the limit of another source b /= a, so what check(b) would return is the
\* same before and after; reset() without a source empties every window and
\* keeps the configured limits.
C14_SourcesIndependent ==
    [][/\ \A a \in Sources :
            (check(a) \/ SlidingWindowRateLimiter_reset(a)) =>
                /\ rl_limits' = rl_limits
                /\ rl_window_secs' = rl_window_secs
                /\ \A b \in Sources \ {a} :
                    /\ (b \in DOMAIN rl_windows') = (b \in DOMAIN rl_windows)
                    /\ WindowAt(b)' = WindowAt(b)
                    /\ check_outcome(b)' = check_outcome(b)
       /\ SlidingWindowRateLimiter_reset_all =>
            /\ \A b \in Sources : WindowAt(b)' = <<>>
            /\ rl_limits' = rl_limits
            /\ rl_window_secs' = rl_window_secs]_vars
C14_Witness ==
    /\ rl_result.kind = "none"
    /\ "voice" \notin DOMAIN rl_windows
    /\ rl_burst["voice"].n = 0
    /\ Len(WindowAt("text")) = LimitOf("text")
    /\ now > 0

\* ----------------------------------------------------- CostTracker: claims
\* The sums of cost_usd over the records of the current day and of the
\* current month, as they stand in the ledger.
DaySum == SumSince(ct_ledger, <<ct_today[1], ct_today[2]>>)
MonthSum == SumSince(ct_ledger, <<ct_today[1], 1>>)
Exhausted == {"Daily budget exhausted", "Monthly budget exhausted"}

\* C15 (as claimed): can_afford() returns (true, "") when the ledger is empty;
\* it returns (false, reason) with a reason mentioning 'exhausted' whenever the
\* sum of cost_usd of the records logged since the start of the current day is
\* >= the daily ceiling, or the sum since the start of the current month is
\* >= the monthly ceiling; otherwise it returns (true, "").
C15_VerdictFromSums ==
    [][can_afford(FALSE) =>
        /\ ct_ledger = <<>> => (ct_verdict'.allowed /\ ct_verdict'.reason = "")
        /\ IF DaySum >= ct_daily_limit \/ MonthSum >= ct_monthly_limit
           THEN ~ct_verdict'.allowed /\ ct_verdict'.reason \in Exhausted
           ELSE ct_verdict'.allowed /\ ct_verdict'.reason = ""]_vars

\* C15 (amended): with positive ceilings that are whole multiples of
\* 0.0001 USD, can_afford() returns (true, "") when the ledger is empty; it
\* returns (false, reason) with a reason mentioning 'exhausted' exactly when
\* the day's sum rounded to 4 decimal places is >= the daily ceiling or the
\* month's sum rounded to 4 decimal places is >= the monthly ceiling, which
\* includes every case where the unrounded sum meets the ceiling and also sums
\* up to 0.00005 USD below it; otherwise it returns (true, "").
C15_VerdictFromRoundedSums ==
    [][can_afford(FALSE) =>
        LET day == ((DaySum + (UnitsPerRound \div 2)) \div UnitsPerRound) * UnitsPerRound
            month == ((MonthSum + (UnitsPerRound \div 2)) \div UnitsPerRound) * UnitsPerRound
        IN
        /\ ct_ledger = <<>> => (ct_verdict'.allowed /\ ct_verdict'.reason = "")
        /\ (DaySum >= ct_daily_limit \/ MonthSum >= ct_monthly_limit) =>
                (~ct_verdict'.allowed /\ ct_verdict'.reason \in Exhausted)
        /\ IF day >= ct_daily_limit \/ month >= ct_monthly_limit
           THEN ~ct_verdict'.allowed /\ ct_verdict'.reason \in Exhausted
           ELSE ct_verdict'.allowed /\ ct_verdict'.reason = ""]_vars
C15_Witness ==
    /\ ct_verdict.kind = "returned"
    /\ ~ct_verdict.allowed
    /\ ct_verdict.reason = "Monthly budget exhausted"
    /\ MonthSum < ct_monthly_limit
    /\ DaySum < MonthSum

\* C39: within one calendar day the budget verdict is monotone: once
\* can_afford() has returned false, it returns false on every later call of
\* that day, whatever usage is logged in between; and in every state
\* get_monthly_spend() >= get_daily_spend().
C39_VerdictMonotone ==
    /\ ct_refused => ~can_afford_result.allowed
    /\ (ct_refused /\ ct_verdict.kind = "returned") => ~ct_verdict.allowed
    /\ get_monthly_spend >= get_daily_spend
C39_Witness ==
    /\ ct_refused
    /\ Len(ct_ledger) = MaxRecords
    /\ ct_ledger[1].cost_usd >= ct_daily_limit
    /\ ct_ledger[MaxRecords].timestamp = isoformat_now
    /\ ct_verdict.kind = "returned"
    /\ ct_verdict.reason = "Daily budget exhausted"
    /\ get_monthly_spend > ct_daily_limit

\* C28: the usage ledger is append-only: each log_usage call adds exactly one
\* record after the existing ones, no other operation (can_afford, the spend
\* queries, get_report, the passing of days) changes or removes a record, and
\* within one calendar day get_daily_spend() never decreases.
C28_AppendOnly ==
    [][/\ Len(ct_ledger') >= Len(ct_ledger)
       /\ SubSeq(ct_ledger', 1, Len(ct_ledger)) = ct_ledger
       /\ \A cost \in Costs : log_usage(cost) => Len(ct_ledger') = Len(ct_ledger) + 1
       /\ (\E db_fails \in BOOLEAN : can_afford(db_fails)) => ct_ledger' = ct_ledger
       /\ midnight => ct_ledger' = ct_ledger
       /\ ct_today' = ct_today =>
            /\ get_daily_spend' >= get_daily_spend
            /\ get_report'.today_spend >= get_report.today_spend
            /\ get_report'.today_calls >= get_report.today_calls]_vars
C28_Witness ==
    /\ Len(ct_ledger) = MaxRecords
    /\ ct_verdict.kind = "returned"
    /\ get_daily_spend > 0
    /\ get_daily_spend < get_monthly_spend
    /\ get_report.today_calls = 1

\* C27: a ledger write failure is swallowed: when persisting the usage record
\* of a request fails, the streamed response of that request is unchanged (no
\* error sentence is added to it) and the request is not counted as an error.
C27_LedgerFailureSwallowed ==
    cl_db_failed =>
        /\ \A i \in 1..Len(cl_yielded) : cl_yielded[i] = StreamedText
        /\ cl_error_count = 0

\* ---------------------------------------------------- IntentRouter: claims
\* C16: budget gate: classify() never returns the premium target (claude) when
\* no premium credential is configured or when the cost tracker's can_afford()
\* returns false; a decision that the rule cascade assigned to premium is then
\* returned with the fast target (ollama), the same intent_type as the
\* cascade's decision, and a reason naming the cause.
C16_BudgetGate ==
    [][(rt_decision'.kind = "returned" /\ rt_enabled) =>
        LET no_key == ~rt_api_key
            no_budget == rt_has_tracker /\ ~can_afford_result.allowed
        IN (no_key \/ no_budget) =>
            /\ rt_decision'.target /= "claude"
            /\ rt_cascade'.target = "claude" =>
                /\ rt_decision'.target = "ollama"
                /\ rt_decision'.intent_type = rt_cascade'.intent_type
                /\ rt_decision'.reason \in
                        IF no_key THEN {"Claude API key not set"}
                        ELSE {"Claude budget exhausted: Daily budget exhausted",
                              "Claude budget exhausted: Monthly budget exhausted"}]_vars
C16_Witness ==
    /\ rt_decision.kind = "returned"
    /\ rt_cascade.kind = "returned"
    /\ rt_cascade.target = "claude"
    /\ rt_cascade.intent_type = "planning"
    /\ rt_decision.target = "ollama"
    /\ rt_decision.intent_type = "planning"
    /\ rt_decision.reason = "Claude budget exhausted: Daily budget exhausted"
    /\ rt_tier_counts["ollama"] = 1

\* The target, intent_type and confidences of each rule of the cascade, in the
\* documented order.
RuleOutcome(i) ==
    CASE i = 1 -> [target |-> "ollama", intent_type |-> "greeting", confidence |-> {95}]
      [] i = 2 -> [target |-> "tool_direct", intent_type |-> "action", confidence |-> {90, 70}]
      [] i = 3 -> [target |-> "claude", intent_type |-> "analysis", confidence |-> {95}]
      [] i = 4 -> [target |-> "claude", intent_type |-> "coding", confidence |-> {85}]
      [] i = 5 -> [target |-> "claude", intent_type |-> "analysis", confidence |-> {80}]
      [] i = 6 -> [target |-> "claude", intent_type |-> "planning", confidence |-> {80}]
      [] i = 7 -> [target |-> "ollama", intent_type |-> "coding", confidence |-> {70}]
      [] i = 8 -> [target |-> "ollama", intent_type |-> "question", confidence |-> {80}]
      [] i = 9 -> [target |-> "claude", intent_type |-> "analysis", confidence |-> {65}]
      [] OTHER -> [target |-> "ollama", intent_type |-> "chitchat", confidence |-> {50}]

\* C17: the rule cascade is first-match-wins in the fixed order greeting with
\* <= 6 words, direct tool, explicit premium request, complex code, analysis,
\* planning, general coding, simple question within the simple threshold, word
\* count above the complex threshold, default: the target, intent_type and
\* confidence produced by the cascade are those of the first rule in this order
\* whose condition the text satisfies, whichever later rules it also satisfies.
C17_FirstMatchWins ==
    rt_cascade.kind = "returned" =>
        /\ rt_first \in Rules
        /\ rt_cascade.target = RuleOutcome(rt_first).target
        /\ rt_cascade.intent_type = RuleOutcome(rt_first).intent_type
        /\ rt_cascade.confidence \in RuleOutcome(rt_first).confidence
C17_Witness ==
    /\ rt_cascade.kind = "returned"
    /\ rt_first = 4
    /\ rt_later
    /\ rt_cascade.intent_type = "coding"
    /\ rt_decision.kind = "returned"
    /\ rt_decision.target = "claude"

\* C18: classify() never raises, for any input text and any behaviour of its
\* collaborators: an exception thrown by a matched tool pattern's argument
\* extraction yields a tool_direct decision with empty args and confidence
\* 0.70, and a failure of the cost tracker's can_afford() during the budget
\* gate does not propagate to the caller of classify().
C18_ClassifyNeverRaises ==
    /\ rt_decision.kind \in {"none", "returned"}
    /\ (rt_decision.kind = "returned" /\ rt_decision.target = "tool_direct"
            /\ rt_decision.tool_args_hint = "empty") =>
                rt_decision.confidence = 70

\* ------------------------------------------------------ JarvisAgent: claims
Running == {x \in Tasks : InRegion(x)}
\* The step in which task x leaves `async with self._interaction_lock`.
EndsTurn(x) == ag_pc[x] \in {"finally", "release"} /\ ag_pc'[x] \notin {"finally", "release"}

\* C1: at most one turn executes at a time: under any interleaving of
\* handle_text_input, handle_voice_interaction and the drain task, at most one
\* of them is inside the region guarded by the interaction lock.
C1_OneTurnAtATime ==
    /\ Cardinality(Running) <= 1
    /\ Running /= {} => ag_locked
C1_Witness ==
    /\ Running /= {}
    /\ \E y \in Tasks : ag_pc[y] = "wait_lock"
    /\ ag_queue /= <<>>

\* C2: the number of queued entries never exceeds the capacity (5); a text
\* submitted while a turn is active is the newest queued entry, and when the
\* queue already holds capacity entries the oldest one is removed, so that
\* exactly capacity entries remain queued.
C2_QueueBounded ==
    [][/\ Len(ag_queue') <= QueueMaxsize
       /\ \A t \in Handlers :
            (handle_text_input(t) /\ ag_locked) =>
                /\ Len(ag_queue') >= 1
                /\ ag_queue'[Len(ag_queue')] = ag_next
                /\ Len(ag_queue) = QueueMaxsize =>
                    /\ Len(ag_queue') = QueueMaxsize
                    /\ SubSeq(ag_queue', 1, QueueMaxsize - 1) = Tail(ag_queue)]_vars
C2_Witness ==
    /\ Len(ag_queue) = QueueMaxsize
    /\ ag_evicted /= {}
    /\ ag_queue[QueueMaxsize] = ag_next - 1

\* C19: every turn releases the interaction lock on every exit path - normal
\* completion, an exception raised by the handler, or cancellation of the task
\* running it: the lock is held only while a task is inside its turn, the step
\* that ends a turn leaves the lock free (unless the drain task starts the next
\* queued text in that same step), and when the turn ends the visible state is
\* IDLE.
C19_LockReleasedOnEveryExit ==
    [][/\ ag_locked' => Running' /= {}
       /\ \A x \in Tasks :
            EndsTurn(x) =>
                /\ ag_state' = "IDLE"
                /\ ag_locked' => (x = Drain /\ ag_pc'[x] = "exec")]_vars
C19_Witness ==
    /\ ag_pc[Drain] = "done"
    /\ ~ag_locked
    /\ ag_state = "IDLE"
    /\ ag_queue /= <<>>
    /\ ag_next > MaxTexts

\* C20: whenever a handler raises an unhandled exception during a turn - a
\* voice turn, a directly submitted text turn, or a queued text turn run by the
\* drain task - the visible state becomes ERROR and then IDLE, in that order,
\* before any other turn starts.
C20_ErrorThenIdle ==
    [][/\ \A x \in Tasks : turn_except(x) => ag_state' = "ERROR"
       /\ \A x \in Tasks :
            (EndsTurn(x) /\ ag_state = "ERROR") => ag_state' = "IDLE"]_vars

\* C21: no exception escapes the turn boundary: whatever raises inside a turn,
\* the notification sink used while reporting the error and restoring IDLE
\* included, handle_text_input and handle_voice_interaction return normally
\* and the drain task keeps running.
C21_NothingEscapes ==
    [][\A x \in Tasks :
        EndsTurn(x) => (ag_pc'[x] /= "raised" /\ ag_pc'[Drain] /= "done")]_vars

\* C22: a failure of the notification sink never affects the request
\* lifecycle: the step in which the broadcast callback raises does not divert
\* the task into its except block nor end it with an exception, and the turn
\* still ends in IDLE with the lock released.
C22_SinkFailureHarmless ==
    [][\A x \in Tasks :
        /\ sink_raises(x) =>
                /\ ag_pc'[x] \notin {"except", "raised", "sleep"}
                /\ ~ag_raising'
        /\ EndsTurn(x) => (ag_state' = "IDLE" /\ (ag_locked' => ag_pc'[x] = "exec"))]_vars

\* C23: a voice trigger that arrives while the interaction lock is held by a
\* running turn is never queued and never waits for the lock:
\* handle_voice_interaction returns without running a turn (the task stays
\* where it was and holds no text) and without changing the agent state, the
\* text queue, the lock or its waiters.
C23_VoiceIgnoredWhileBusy ==
    [][\A t \in Handlers :
        (ag_locked /\ handle_voice_interaction(t)) =>
            /\ ag_ignored'
            /\ UNCHANGED <<ag_pc, ag_kind, ag_text, ag_state, ag_queue,
                           ag_locked, ag_waiters, ag_woken, ag_next, ag_evicted>>]_vars
C23_Witness ==
    /\ ag_ignored
    /\ ag_locked
    /\ ag_state = "SPEAKING"
    /\ ag_queue /= <<>>
    /\ ag_waiters = <<>>
    /\ \E t \in Handlers : ag_pc[t] = "idle"
    /\ \E t \in Handlers : ag_pc[t] = "speaking" /\ ag_kind[t] = "voice"

\* C24: the drain task removes the oldest entry from the queue only when the
\* interaction lock is free: it never holds a text outside the queue while
\* another turn is executing, so the only text in flight outside the queue
\* belongs to the holder of the lock.
C24_PopOnlyWhenLockFree ==
    ag_text[Drain] /= 0 => (InRegion(Drain) /\ Running = {Drain})

\* C25: every text submitted while a turn is active produces a notification:
\* the handler goes on to broadcast a "queued" event when the text is
\* enqueued, also when enqueuing it evicts the oldest entry; an eviction never
\* happens without a notification.
C25_QueuedNotified ==
    [][/\ \A t \in Handlers :
            (handle_text_input(t) /\ ag_locked) => ag_pc'[t] = "notify"
       /\ ag_evicted' /= ag_evicted => \E t \in Handlers : ag_pc'[t] = "notify"]_vars

\* C26: an in-flight turn is never forcibly cancelled mid-execution: no
\* CancelledError passes through a queued turn that the drain task has started
\* under the lock.
C26_InFlightTurnNotCancelled ==
    InRegion(Drain) => ~ag_cancelled

\* Changes of the visible state that the single-turn state machine names.
TurnEdges ==
    {<<"IDLE", "LISTENING">>, <<"IDLE", "THINKING">>, <<"LISTENING", "THINKING">>,
     <<"THINKING", "EXECUTING">>, <<"THINKING", "SPEAKING">>,
     <<"EXECUTING", "SPEAKING">>, <<"SPEAKING", "IDLE">>, <<"ERROR", "IDLE">>}
\* Changes of the visible state inside the body of a turn.
BodyEdges ==
    {<<"IDLE", "LISTENING">>, <<"IDLE", "THINKING">>, <<"LISTENING", "THINKING">>,
     <<"THINKING", "EXECUTING">>, <<"EXECUTING", "THINKING">>,
     <<"THINKING", "SPEAKING">>, <<"THINKING", "LISTENING">>,
     <<"SPEAKING", "LISTENING">>}

\* Texts that were submitted and whose turn has not started: queued, or held
\* by a task that waits for the lock.
PendingTexts ==
    {ag_queue[i] : i \in 1..Len(ag_queue)}
        \cup {ag_text[x] : x \in {y \in Tasks : ag_pc[y] = "wait_lock"}}

\* C36: text turns execute in submission order: when the turn of a text is
\* running, no text submitted after it has already had its turn (every later
\* text is still pending or was evicted).
C36_SubmissionOrder ==
    \A x \in Tasks :
        (InRegion(x) /\ ag_text[x] /= 0) =>
            \A b \in (ag_text[x] + 1)..(ag_next - 1) :
                b \in PendingTexts \cup ag_evicted

\* C37: every text that was enqueued and not evicted by overflow is
\* eventually executed as a turn, provided that every turn terminates and the
\* drain task is not cancelled, also while voice triggers and direct text
\* submissions keep arriving.
C37_QueuedEventuallyRuns ==
    \A n \in 1..MaxTexts :
        (\E i \in 1..Len(ag_queue) : ag_queue[i] = n)
            ~> (n \in ag_evicted \/ (InRegion(Drain) /\ ag_text[Drain] = n))
C37_Witness ==
    /\ InRegion(Drain)
    /\ ag_text[Drain] > 1
    /\ ag_waiters /= <<>>
    /\ ag_queue /= <<>>

\* C29: in every turn the rate limiter is consulted first, with the turn's
\* source ('voice' for voice turns, 'text' otherwise); when it rejects, the
\* turn invokes neither the router nor any backend client nor any tool, emits
\* a rate_limited notification and a canned reply, and ends in IDLE.
C29_RateLimiterFirst ==
    /\ pt_calls /= {} => CheckCall(pt_source) \in pt_calls
    /\ \A s \in Sources \ {pt_source} : CheckCall(s) \notin pt_calls
    /\ pt_verdict = "rejected" =>
        /\ pt_calls \subseteq {CheckCall(pt_source)}
        /\ pt_target = "none"
        /\ pt_events \subseteq {"rate_limited", "response_complete(canned)"}
        /\ pt_pc \in {"returned", "finally"} =>
                pt_events = {"rate_limited", "response_complete(canned)"}
        /\ pt_pc \in {"rate_limited", "returned", "finally", "listening", "idle"}
        /\ ag_state \in {"THINKING", "LISTENING", "IDLE"}
    /\ pt_pc = "idle" => ag_state = "IDLE"
C29_Witness ==
    /\ pt_verdict = "rejected"
    /\ pt_source = "voice"
    /\ pt_pc = "idle"
    /\ ag_state = "IDLE"
    /\ rl_rejected["text"] = 2

=============================================================================
